---- MODULE Spec2Model ----
(***************************************************************************)
(* Verification model of the k3s-platform manifest generators:             *)
(*   k3sapp     (libs/k3sapp/k3sapp/{types,schema,generators,cli}.py)      *)
(*   k3scompose (libs/k3scompose/k3scompose/{types,generators}.py)         *)
(*   k3sfn      (libs/k3sfn/k3sfn/{types,cli}.py)                          *)
(*                                                                         *)
(* Conventions.                                                            *)
(*   - An Optional[...] value is a sequence: <<>> is None, <<v>> is v.     *)
(*   - A Python dict is a sequence of <<key, value>> pairs with distinct   *)
(*     keys, in insertion order.                                           *)
(*   - A Kubernetes label selector is a set of <<key, value>> pairs; the   *)
(*     empty set is the empty selector {} (matches everything).            *)
(*   - A dict key that the code adds conditionally is an Optional field of *)
(*     the modelled manifest (<<>> when the key is not added).             *)
(*   - A name is a sequence of one-character strings, so that character    *)
(*     conversions are computed; Join turns it into a string.              *)
(***************************************************************************)
EXTENDS Integers, Sequences, FiniteSets, TLC

VARIABLES
    tool,        \* which command line tool / generator this run exercises
    cmd,         \* the operation this run performs ("generate", "list", ...)
    pc,          \* position of the run: "loaded" -> "done"
    env,         \* target Environment value: "local" | "dev" | "gcp"
    app,         \* k3sapp: the AppConfig under generation
    defaults,    \* k3sapp: AppsYamlConfig.defaults (registry, ingress maps)
    osEnviron,   \* os.environ as seen by get_literal_env_vars
    manifests,   \* list returned by generate_all_manifests
    entries,     \* raw apps.yaml entries (apps / compose / serverless list)
    enabled,     \* list returned by get_enabled_apps and its siblings
    func,        \* k3sfn: the FunctionMetadata under generation
    svc,         \* k3scompose: the compose service and its security config
    policy,      \* the NetworkPolicy returned by generate_network_policy
    given,       \* the raw (unparsed) input of a run of one function
    returned     \* what that function returned

vars == <<tool, cmd, pc, env, app, defaults, osEnviron, manifests, entries,
          enabled, func, svc, policy, given, returned>>

(***************************************************************************)
(* Bounds of the explored input space.                                     *)
(***************************************************************************)
MaxReplicas == 2       \* override replicas range over 0..MaxReplicas
MaxMinInstances == 2   \* scaling.min_instances ranges over 0..MaxMinInstances
MaxRules == 2          \* allow_from / allow_to / access-rule lists: up to MaxRules
MaxEntries == 2        \* apps.yaml lists: up to MaxEntries entries
MaxBatch == 3          \* generate-all batches: up to MaxBatch entries
MaxFunctions == 2      \* functions of one serverless app: up to MaxFunctions
MaxRoutes == 2         \* gateway routes: up to MaxRoutes
MaxNameLen == 3        \* names given to _to_k8s_name: every string up to MaxNameLen

None == <<>>
Some(v) == <<v>>
IsSet(o) == o # <<>>
Val(o) == o[1]

RECURSIVE Join(_)
Join(cs) == IF cs = <<>> THEN "" ELSE Head(cs) \o Join(Tail(cs))

Range(s) == {s[i] : i \in 1..Len(s)}

\* dict.get(key, default) on a dict modelled as a sequence of pairs
DictHas(d, k) == \E i \in 1..Len(d) : d[i][1] = k
DictGet(d, k, dflt) ==
    IF DictHas(d, k) THEN d[CHOOSE i \in 1..Len(d) : d[i][1] = k][2] ELSE dflt

\* d[k] = v on a dict: replaces in place when the key exists, else appends
DictSet(d, k, v) ==
    IF DictHas(d, k)
    THEN [i \in 1..Len(d) |-> IF d[i][1] = k THEN <<k, v>> ELSE d[i]]
    ELSE Append(d, <<k, v>>)

(***************************************************************************)
(* k3sapp/types.py                                                         *)
(***************************************************************************)
Environments == {"local", "dev", "gcp"}

ScalingTypes == {"hpa", "keda-http", "keda-queue", "keda-cron", "none"}

AppVisibilities == {"internal", "private", "restricted"}

SecretProviders == {"gcp", "aws", "vault", "azure"}

UpperChars == <<"A", "B", "C", "D", "E", "F", "G", "H", "I", "J", "K", "L", "M",
                "N", "O", "P", "Q", "R", "S", "T", "U", "V", "W", "X", "Y", "Z">>
LowerChars == <<"a", "b", "c", "d", "e", "f", "g", "h", "i", "j", "k", "l", "m",
                "n", "o", "p", "q", "r", "s", "t", "u", "v", "w", "x", "y", "z">>

\* str.lower() on one character
Lower(c) ==
    IF \E i \in 1..Len(UpperChars) : UpperChars[i] = c
    THEN LowerChars[CHOOSE i \in 1..Len(UpperChars) : UpperChars[i] = c]
    ELSE c

\* k3sapp _to_k8s_name: name.replace("_", "-").lower()
AppToK8sName(name) ==
    [i \in 1..Len(name) |-> Lower(IF name[i] = "_" THEN "-" ELSE name[i])]

\* ScalingConfig() with the dataclass defaults
DefaultScaling ==
    [type |-> "keda-http", min_instances |-> 0, max_instances |-> 10,
     target_pending_requests |-> 100, queue_name |-> None, queue_length |-> 5,
     target_cpu_percent |-> 80, target_memory_percent |-> 80,
     cooldown_period |-> 300, scale_up_stabilization |-> 0,
     scale_down_stabilization |-> 300, cron_schedules |-> <<>>]

\* ResourcesConfig(memory, cpu, memory_limit, cpu_limit) after __post_init__
ResourcesConfig(memory, cpu, memory_limit, cpu_limit) ==
    [memory |-> memory, cpu |-> cpu,
     memory_limit |-> IF memory_limit = None THEN Some(memory) ELSE memory_limit,
     cpu_limit |-> cpu_limit, ephemeral_storage |-> None]

\* PortConfig() with the dataclass defaults
DefaultPort ==
    [name |-> "http", container_port |-> 8080, service_port |-> 80,
     protocol |-> "TCP"]

\* IngressConfig() with the dataclass defaults (TimeoutsConfig inlined)
DefaultIngress ==
    [enabled |-> FALSE, path |-> <<"/">>, path_type |-> "Prefix",
     strip_prefix |-> FALSE, hosts |-> <<>>, tls |-> None,
     timeouts |-> [connect |-> "10s", server |-> "180s", client |-> "180s",
                   queue |-> "180s"],
     annotations |-> <<>>]

\* NetworkPolicyRule
NetworkPolicyRule(namespace, pod_labels, cidr) ==
    [namespace |-> namespace, pod_labels |-> pod_labels, cidr |-> cidr]

\* SecurityConfig() with the dataclass defaults
DefaultSecurity ==
    [visibility |-> "private",
     network_policy |-> [enabled |-> TRUE, allow_from |-> <<>>, allow_to |-> <<>>],
     service_account |-> None, create_service_account |-> FALSE,
     service_account_annotations |-> <<>>]

\* AppEnvOverride() with the dataclass defaults
DefaultOverride ==
    [enabled |-> None, replicas |-> None, resources |-> None, scaling |-> None,
     environment |-> <<>>, pod_disruption_budget |-> None,
     ingress_annotations |-> <<>>]

\* EnvironmentValue: a literal (a list of text / ${VAR:-default} parts) or a
\* secret reference
Literal(parts) == [value |-> Some(parts), secret_ref |-> None]
Text(s) == [t |-> "text", s |-> s, dflt |-> ""]
VarRef(v, d) == [t |-> "var", s |-> v, dflt |-> d]
SecretRef(secret, provider) ==
    [value |-> None,
     secret_ref |-> Some([secret |-> secret, provider |-> provider,
                          version |-> "latest", key |-> None])]

\* AppConfig with the dataclass defaults for everything but the name
DefaultApp ==
    [name |-> <<"M", "y", "_", "A", "p", "p">>, namespace |-> "apps",
     enabled |-> TRUE, ports |-> <<>>,
     resources |-> ResourcesConfig("256Mi", "100m", None, None),
     scaling |-> DefaultScaling, ingress |-> DefaultIngress,
     security |-> DefaultSecurity, environment |-> <<>>, env_from |-> <<>>,
     volumes |-> <<>>,
     overrides |-> [e \in Environments |-> None]]

\* AppConfig.get_env_override
get_env_override(a, e) == a.overrides[e]

\* get_effective_resources that ignores the override block
get_effective_resources_Base(a, e) == a.resources

\* get_effective_scaling that ignores the override block
get_effective_scaling_Base(a, e) == a.scaling

\* AppConfig.get_effective_scaling
get_effective_scaling(a, e) ==
    LET override == get_env_override(a, e) IN
    IF IsSet(override) /\ IsSet(Val(override).scaling)
    THEN Val(Val(override).scaling)
    ELSE a.scaling

\* AppConfig.get_effective_resources
get_effective_resources(a, e) ==
    LET override == get_env_override(a, e) IN
    IF IsSet(override) /\ IsSet(Val(override).resources)
    THEN Val(Val(override).resources)
    ELSE a.resources

RECURSIVE MergeEnv(_, _)
MergeEnv(result, ov) ==
    IF ov = <<>> THEN result
    ELSE MergeEnv(DictSet(result, Head(ov)[1], Literal(Head(ov)[2])), Tail(ov))

\* get_effective_environment in which a key of the base keeps the base's value
get_effective_environment_BaseWins(a, e) ==
    LET override == get_env_override(a, e)
        added == IF IsSet(override)
                 THEN SelectSeq(Val(override).environment,
                                LAMBDA kv : ~DictHas(a.environment, kv[1]))
                 ELSE <<>>
    IN MergeEnv(a.environment, added)

\* AppConfig.get_effective_environment
get_effective_environment(a, e) ==
    LET override == get_env_override(a, e) IN
    IF IsSet(override) THEN MergeEnv(a.environment, Val(override).environment)
    ELSE a.environment

\* self.environment after get_effective_environment returned: result is a copy
\* (dict(self.environment)) and every store goes to the copy
environment_after_merge(a, e) == a.environment

RECURSIVE substitute_env_var(_, _)
\* substitute_env_var: ${VAR} / ${VAR:-default} replaced from os.environ
substitute_env_var(parts, environ) ==
    IF parts = <<>> THEN ""
    ELSE LET p == Head(parts) IN
         (IF p.t = "text" THEN p.s ELSE DictGet(environ, p.s, p.dflt))
             \o substitute_env_var(Tail(parts), environ)

RECURSIVE LiteralsOf(_, _)
LiteralsOf(d, environ) ==
    IF d = <<>> THEN <<>>
    ELSE LET k == Head(d)[1]
             val == Head(d)[2]
         IN (IF val.secret_ref = None /\ val.value # None
             THEN <<[name |-> k, value |-> substitute_env_var(Val(val.value), environ)]>>
             ELSE <<>>) \o LiteralsOf(Tail(d), environ)

\* AppConfig.get_literal_env_vars, as the {name, value} list _build_env_vars
\* makes of it
get_literal_env_vars(a, e, environ) ==
    LiteralsOf(get_effective_environment(a, e), environ)

RECURSIVE SecretsOf(_)
SecretsOf(d) ==
    IF d = <<>> THEN <<>>
    ELSE (IF Head(d)[2].secret_ref # None
          THEN <<<<Head(d)[1], Val(Head(d)[2].secret_ref)>>>>
          ELSE <<>>) \o SecretsOf(Tail(d))

\* AppConfig.get_secret_refs: secret references of the base environment map
get_secret_refs(a) == SecretsOf(a.environment)

\* AppConfig.get_primary_port
get_primary_port(a) == IF a.ports # <<>> THEN a.ports[1] ELSE DefaultPort

\* DefaultsConfig.get_registry / get_ingress_type
get_registry(d, e) == DictGet(d.registry, e, "")
get_ingress_type(d, e) == DictGet(d.ingress, e, "traefik")

\* schema.resolve_registry_url
resolve_registry_url(a, e, d) ==
    LET registry == get_registry(d, e) IN
    IF registry # "" THEN registry \o "/" \o Join(a.name) \o ":latest"
    ELSE Join(a.name) \o ":latest"

(***************************************************************************)
(* k3sapp/generators.py                                                    *)
(* Pass-through fields that no branch depends on (command, args, probes,   *)
(* security contexts, ephemeral storage, TLS) are left out of the modelled *)
(* manifests.                                                              *)
(***************************************************************************)
\* registries whose URL contains "docker.pkg.dev"
ArtifactRegistries == {"us-docker.pkg.dev/proj/repo"}

AppLabels(a) ==
    <<<<"app", Join(AppToK8sName(a.name))>>, <<"k3sapp.io/app", Join(a.name)>>>>

\* _build_env_from
build_env_from(a) ==
    [i \in 1..Len(a.env_from) |->
        [ref |-> IF a.env_from[i].type = "secret" THEN "secretRef" ELSE "configMapRef",
         name |-> a.env_from[i].name]]

\* _build_volume / _build_volume_mount
build_volume(v) == [name |-> v.name, type |-> v.type]
build_volume_mount(v) == [name |-> v.name, mountPath |-> v.mount_path]

\* generate_deployment testing the override's replicas for truth
DeploymentReplicas_Truthy(a, e) ==
    LET scaling == get_effective_scaling(a, e)
        replicas == IF scaling.type # "none" THEN scaling.min_instances ELSE 1
        env_override == get_env_override(a, e)
    IN IF IsSet(env_override) /\ Val(env_override).replicas # None
          /\ Val(env_override).replicas # Some(0)
       THEN Val(Val(env_override).replicas)
       ELSE replicas

\* the replica count computed by generate_deployment
DeploymentReplicas(a, e) ==
    LET scaling == get_effective_scaling(a, e)
        replicas == IF scaling.type # "none" THEN scaling.min_instances ELSE 1
        env_override == get_env_override(a, e)
    IN IF IsSet(env_override) /\ Val(env_override).replicas # None
       THEN Val(Val(env_override).replicas)
       ELSE replicas

\* the envFrom list computed by generate_deployment
DeploymentEnvFrom(a, e) ==
    LET name == Join(AppToK8sName(a.name)) IN
    build_env_from(a) \o
        (IF e # "local" /\ get_secret_refs(a) # <<>>
         THEN <<[ref |-> "secretRef", name |-> name \o "-secrets"]>>
         ELSE <<>>)

\* the limits of the container when the memory limit is the memory request
DeploymentLimits_MemoryRequest(resources) ==
    [memory |-> Some(resources.memory), cpu |-> resources.cpu_limit]

\* the limits generate_deployment gives the container: the memory limit
\* always, the cpu limit when resources.cpu_limit is truthy
DeploymentLimits(resources) ==
    [memory |-> resources.memory_limit,
     cpu |-> IF IsSet(resources.cpu_limit) /\ Val(resources.cpu_limit) # ""
             THEN resources.cpu_limit ELSE None]

\* generate_deployment
generate_deployment(a, e, image, environ) ==
    LET name == Join(AppToK8sName(a.name))
        resources == get_effective_resources(a, e)
        primary_port == get_primary_port(a)
        container ==
            [name |-> name, image |-> image,
             ports |-> IF a.ports # <<>>
                       THEN [i \in 1..Len(a.ports) |->
                               [containerPort |-> a.ports[i].container_port,
                                protocol |-> Some(a.ports[i].protocol),
                                name |-> Some(a.ports[i].name)]]
                       ELSE <<[containerPort |-> primary_port.container_port,
                               protocol |-> None, name |-> None]>>,
             resources |->
                [requests |-> [memory |-> resources.memory, cpu |-> resources.cpu],
                 limits |-> DeploymentLimits(resources)],
             env |-> get_literal_env_vars(a, e, environ),
             envFrom |-> DeploymentEnvFrom(a, e),
             volumeMounts |-> [i \in 1..Len(a.volumes) |-> build_volume_mount(a.volumes[i])]]
        pod_spec ==
            [containers |-> <<container>>,
             volumes |-> [i \in 1..Len(a.volumes) |-> build_volume(a.volumes[i])],
             serviceAccountName |-> a.security.service_account,
             imagePullSecrets |-> IF \E r \in ArtifactRegistries :
                                        image = r \o "/" \o Join(a.name) \o ":latest"
                                  THEN <<"artifact-registry">> ELSE <<>>]
    IN [apiVersion |-> "apps/v1", kind |-> "Deployment",
        metadata |-> [name |-> name, namespace |-> a.namespace, labels |-> AppLabels(a)],
        spec |-> [replicas |-> DeploymentReplicas(a, e),
                  selector |-> {<<"app", name>>},
                  template |-> [labels |-> AppLabels(a), spec |-> pod_spec]]]

\* generate_service
generate_service(a, e) ==
    LET name == Join(AppToK8sName(a.name))
        primary_port == get_primary_port(a)
    IN [apiVersion |-> "v1", kind |-> "Service",
        metadata |-> [name |-> name, namespace |-> a.namespace, labels |-> AppLabels(a)],
        spec |-> [type |-> None, externalName |-> None,
                  selector |-> Some({<<"app", name>>}),
                  ports |-> IF a.ports # <<>>
                            THEN [i \in 1..Len(a.ports) |->
                                    [name |-> a.ports[i].name,
                                     port |-> a.ports[i].service_port,
                                     targetPort |-> a.ports[i].container_port,
                                     protocol |-> a.ports[i].protocol]]
                            ELSE <<[name |-> "http",
                                    port |-> primary_port.service_port,
                                    targetPort |-> primary_port.container_port,
                                    protocol |-> "TCP"]>>]]

\* generate_httpscaledobject (None when scaling is not keda-http)
generate_httpscaledobject(a, e) ==
    LET scaling == get_effective_scaling(a, e)
        name == Join(AppToK8sName(a.name))
        primary_port == get_primary_port(a)
    IN IF scaling.type # "keda-http" THEN None
       ELSE Some(
        [apiVersion |-> "http.keda.sh/v1alpha1", kind |-> "HTTPScaledObject",
         metadata |-> [name |-> name \o "-http", namespace |-> a.namespace,
                       labels |-> AppLabels(a)],
         spec |-> [hosts |-> <<name \o "." \o a.namespace>>,
                   pathPrefixes |-> <<IF a.ingress.enabled THEN Join(a.ingress.path) ELSE "/">>,
                   scaleTargetRef |-> [name |-> name, kind |-> "Deployment",
                                       service |-> name,
                                       port |-> primary_port.service_port],
                   replicas |-> [min |-> scaling.min_instances,
                                 max |-> scaling.max_instances],
                   scalingMetric |->
                       [requestRate |-> [granularity |-> "1s",
                                         targetValue |-> scaling.target_pending_requests,
                                         window |-> "1m"]],
                   scaledownPeriod |-> scaling.cooldown_period]])

\* generate_hpa (None when scaling is not hpa)
generate_hpa(a, e) ==
    LET scaling == get_effective_scaling(a, e)
        name == Join(AppToK8sName(a.name))
    IN IF scaling.type # "hpa" THEN None
       ELSE Some(
        [apiVersion |-> "autoscaling/v2", kind |-> "HorizontalPodAutoscaler",
         metadata |-> [name |-> name, namespace |-> a.namespace,
                       labels |-> AppLabels(a)],
         spec |-> [scaleTargetRef |-> [name |-> name, kind |-> "Deployment"],
                   minReplicas |-> IF scaling.min_instances # 0
                                   THEN scaling.min_instances ELSE 1,
                   maxReplicas |-> scaling.max_instances,
                   metrics |->
                       (IF scaling.target_cpu_percent # 0
                        THEN <<[name |-> "cpu",
                                averageUtilization |-> scaling.target_cpu_percent]>>
                        ELSE <<>>) \o
                       (IF scaling.target_memory_percent # 0
                        THEN <<[name |-> "memory",
                                averageUtilization |-> scaling.target_memory_percent]>>
                        ELSE <<>>)]])

\* generate_trigger_authentication (None when scaling is not keda-queue)
generate_trigger_authentication(a, e) ==
    LET scaling == get_effective_scaling(a, e)
        name == Join(AppToK8sName(a.name))
    IN IF scaling.type # "keda-queue" THEN None
       ELSE Some(
        [apiVersion |-> "keda.sh/v1alpha1", kind |-> "TriggerAuthentication",
         metadata |-> [name |-> name \o "-redis-auth", namespace |-> a.namespace,
                       labels |-> AppLabels(a)],
         spec |-> [secretTargetRef |-> <<[parameter |-> "password",
                                          name |-> "valkey-secret",
                                          key |-> "password"]>>]])

\* generate_keda_scaledobject_queue (None when scaling is not keda-queue, and
\* None when no queue_name is configured)
generate_keda_scaledobject_queue(a, e) ==
    LET scaling == get_effective_scaling(a, e)
        name == Join(AppToK8sName(a.name))
    IN IF scaling.type # "keda-queue" THEN None
       ELSE IF scaling.queue_name = None \/ scaling.queue_name = Some("") THEN None
       ELSE Some(
        [apiVersion |-> "keda.sh/v1alpha1", kind |-> "ScaledObject",
         metadata |-> [name |-> name \o "-queue", namespace |-> a.namespace,
                       labels |-> AppLabels(a)],
         spec |-> [scaleTargetRef |-> [name |-> name, kind |-> "Deployment"],
                   cooldownPeriod |-> scaling.cooldown_period,
                   minReplicaCount |-> scaling.min_instances,
                   maxReplicaCount |-> scaling.max_instances,
                   triggers |-> <<[type |-> "redis",
                                   listName |-> Val(scaling.queue_name),
                                   listLength |-> ToString(scaling.queue_length),
                                   authenticationRef |-> name \o "-redis-auth"]>>]])

\* generate_keda_scaledobject_cron (None when scaling is not keda-cron)
generate_keda_scaledobject_cron(a, e) ==
    LET scaling == get_effective_scaling(a, e)
        name == Join(AppToK8sName(a.name))
    IN IF scaling.type # "keda-cron" THEN None
       ELSE Some(
        [apiVersion |-> "keda.sh/v1alpha1", kind |-> "ScaledObject",
         metadata |-> [name |-> name \o "-cron", namespace |-> a.namespace,
                       labels |-> AppLabels(a)],
         spec |-> [scaleTargetRef |-> [name |-> name, kind |-> "Deployment"],
                   cooldownPeriod |-> scaling.cooldown_period,
                   minReplicaCount |-> scaling.min_instances,
                   maxReplicaCount |-> scaling.max_instances,
                   triggers |->
                       IF scaling.cron_schedules # <<>>
                       THEN [i \in 1..Len(scaling.cron_schedules) |->
                               [type |-> "cron",
                                timezone |-> scaling.cron_schedules[i].timezone,
                                start |-> scaling.cron_schedules[i].start,
                                end |-> scaling.cron_schedules[i].end,
                                desiredReplicas |->
                                    ToString(scaling.cron_schedules[i].replicas)]]
                       ELSE <<[type |-> "cron", timezone |-> "UTC",
                               start |-> "0 8 * * *", end |-> "0 18 * * *",
                               desiredReplicas |-> ToString(scaling.max_instances)]>>]])

\* generate_keda_route_service (None when ingress is disabled)
generate_keda_route_service(a, e) ==
    LET name == Join(AppToK8sName(a.name)) IN
    IF ~a.ingress.enabled THEN None
    ELSE Some(
        [apiVersion |-> "v1", kind |-> "Service",
         metadata |-> [name |-> "keda-route-" \o name, namespace |-> a.namespace,
                       labels |-> AppLabels(a) \o
                                  <<<<"k3sapp.io/component", "keda-route">>>>],
         spec |-> [type |-> Some("ExternalName"),
                   externalName |->
                       Some("keda-add-ons-http-interceptor-proxy.keda.svc.cluster.local"),
                   selector |-> None,
                   ports |-> <<[name |-> "", port |-> 8080, targetPort |-> 8080,
                                protocol |-> "TCP"]>>]])

RECURSIVE UpdateDict(_, _)
\* dict.update
UpdateDict(d, u) ==
    IF u = <<>> THEN d ELSE UpdateDict(DictSet(d, Head(u)[1], Head(u)[2]), Tail(u))

RECURSIVE RStripSlash(_)
\* str.rstrip("/")
RStripSlash(cs) ==
    IF cs # <<>> /\ cs[Len(cs)] = "/" THEN RStripSlash(SubSeq(cs, 1, Len(cs) - 1))
    ELSE cs

\* generate_haproxy_ingress (None when ingress is disabled)
generate_haproxy_ingress(a, e) ==
    LET name == Join(AppToK8sName(a.name))
        routing_host == name \o "." \o a.namespace
        path == Join(RStripSlash(a.ingress.path))
        config_backend ==
            "http-request set-header Host " \o routing_host \o "\n" \o
            (IF a.ingress.strip_prefix /\ a.ingress.path # <<"/">>
             THEN "http-request set-path %[path,regsub(^" \o path \o "/,/),regsub(^"
                  \o path \o "$,/)]\n"
             ELSE "")
        env_override == get_env_override(a, e)
        base ==
            <<<<"haproxy-ingress.github.io/timeout-connect", a.ingress.timeouts.connect>>,
              <<"haproxy-ingress.github.io/timeout-server", a.ingress.timeouts.server>>,
              <<"haproxy-ingress.github.io/timeout-client", a.ingress.timeouts.client>>,
              <<"haproxy-ingress.github.io/timeout-queue", a.ingress.timeouts.queue>>,
              <<"haproxy-ingress.github.io/retry-on",
                "conn-failure,empty-response,response-timeout">>,
              <<"haproxy-ingress.github.io/retries", "3">>,
              <<"haproxy-ingress.github.io/config-backend", config_backend>>>>
        annotations ==
            UpdateDict(
                IF IsSet(env_override)
                THEN UpdateDict(base, Val(env_override).ingress_annotations)
                ELSE base,
                a.ingress.annotations)
    IN IF ~a.ingress.enabled THEN None
       ELSE Some(
        [apiVersion |-> "networking.k8s.io/v1", kind |-> "Ingress",
         metadata |-> [name |-> name \o "-haproxy", namespace |-> a.namespace,
                       labels |-> AppLabels(a) \o <<<<"k3sapp.io/ingress", "haproxy">>>>,
                       annotations |-> annotations],
         spec |-> [ingressClassName |-> "haproxy",
                   rules |-> <<[paths |->
                       <<[path |-> Join(a.ingress.path),
                          pathType |-> a.ingress.path_type,
                          backend |-> [service |-> "keda-route-" \o name,
                                       port |-> 8080]]>>]>>]])

\* generate_traefik_ingress (None when ingress is disabled)
generate_traefik_ingress(a, e) ==
    LET name == Join(AppToK8sName(a.name)) IN
    IF ~a.ingress.enabled THEN None
    ELSE Some(
        [apiVersion |-> "traefik.io/v1alpha1", kind |-> "IngressRoute",
         metadata |-> [name |-> name \o "-routes", namespace |-> a.namespace,
                       labels |-> AppLabels(a)],
         spec |-> [entryPoints |-> <<"web", "websecure">>,
                   routes |-> <<[pathPrefix |-> Join(a.ingress.path),
                                 hosts |-> a.ingress.hosts,
                                 services |-> <<[name |-> "keda-interceptor-proxy",
                                                 port |-> 8080]>>,
                                 middlewares |-> <<[name |-> name \o "-host-rewrite",
                                                    namespace |-> a.namespace]>>]>>]])

\* generate_traefik_middleware returning no Middleware at all
generate_traefik_middleware_None(a, e) == None

\* generate_traefik_middleware (None when ingress is disabled)
generate_traefik_middleware(a, e) ==
    LET name == Join(AppToK8sName(a.name)) IN
    IF ~a.ingress.enabled THEN None
    ELSE Some(
        [apiVersion |-> "traefik.io/v1alpha1", kind |-> "Middleware",
         metadata |-> [name |-> name \o "-host-rewrite", namespace |-> a.namespace,
                       labels |-> AppLabels(a)],
         spec |-> [customRequestHeaders |-> <<<<"Host", name \o "." \o a.namespace>>>>]])

\* generate_ingress emitting the Traefik pair whatever the ingress type
generate_ingress_Traefik(a, e, d) ==
    IF ~a.ingress.enabled THEN <<>>
    ELSE generate_traefik_middleware(a, e) \o generate_traefik_ingress(a, e)

\* generate_ingress
generate_ingress(a, e, d) ==
    IF ~a.ingress.enabled THEN <<>>
    ELSE IF get_ingress_type(d, e) = "haproxy"
         THEN generate_keda_route_service(a, e) \o generate_haproxy_ingress(a, e)
         ELSE generate_traefik_middleware(a, e) \o generate_traefik_ingress(a, e)

(***************************************************************************)
(* NetworkPolicy peers and rules, shared by the three generators.          *)
(***************************************************************************)
Peer(ns, pod, cidr) == [namespaceSelector |-> ns, podSelector |-> pod, ipBlock |-> cidr]

NamespacePeer(n) == Peer(Some({<<"kubernetes.io/metadata.name", n>>}), None, None)

TcpPort(p) == [protocol |-> "TCP", port |-> p]

\* the rule allowing the keda namespace on port p
KedaRule(p) == [from |-> <<NamespacePeer("keda")>>, ports |-> <<TcpPort(p)>>]

\* the from_spec / to_spec dict built from one NetworkPolicyRule
RuleSpec(rule) ==
    Peer(IF rule.namespace # None /\ rule.namespace # Some("")
         THEN Some({<<"kubernetes.io/metadata.name", Val(rule.namespace)>>}) ELSE None,
         IF rule.pod_labels # {} THEN Some(rule.pod_labels) ELSE None,
         IF rule.cidr # None /\ rule.cidr # Some("") THEN rule.cidr ELSE None)

EmptySpec == Peer(None, None, None)

RECURSIVE AllowFromRules(_, _)
\* the loop over network_policy.allow_from
AllowFromRules(rules, port) ==
    IF rules = <<>> THEN <<>>
    ELSE (IF RuleSpec(Head(rules)) # EmptySpec
          THEN <<[from |-> <<RuleSpec(Head(rules))>>, ports |-> <<TcpPort(port)>>]>>
          ELSE <<>>) \o AllowFromRules(Tail(rules), port)

RECURSIVE AllowToRules(_)
\* the loop over network_policy.allow_to
AllowToRules(rules) ==
    IF rules = <<>> THEN <<>>
    ELSE (IF RuleSpec(Head(rules)) # EmptySpec
          THEN <<[to |-> <<RuleSpec(Head(rules))>>, ports |-> <<>>]>>
          ELSE <<>>) \o AllowToRules(Tail(rules))

\* the egress rule allowing DNS to the kube-dns pods
DnsRule ==
    [to |-> <<Peer(Some({}), Some({<<"k8s-app", "kube-dns">>}), None)>>,
     ports |-> <<[protocol |-> "UDP", port |-> 53], [protocol |-> "TCP", port |-> 53]>>]

\* generate_network_policy treating RESTRICTED like PRIVATE
AppIngressRules_RestrictedAsPrivate(a) ==
    LET port == get_primary_port(a).container_port IN
    <<KedaRule(port)>> \o
    (IF a.security.visibility = "internal"
     THEN <<[from |-> <<Peer(Some({}), None, None)>>, ports |-> <<TcpPort(port)>>]>>
     ELSE <<[from |-> <<Peer(None, Some({}), None)>>, ports |-> <<TcpPort(port)>>]>>) \o
    AllowFromRules(a.security.network_policy.allow_from, port)

\* the ingress rule list built by k3sapp generate_network_policy
AppIngressRules(a) ==
    LET port == get_primary_port(a).container_port IN
    <<KedaRule(port)>> \o
    (IF a.security.visibility = "internal"
     THEN <<[from |-> <<Peer(Some({}), None, None)>>, ports |-> <<TcpPort(port)>>]>>
     ELSE IF a.security.visibility = "private"
     THEN <<[from |-> <<Peer(None, Some({}), None)>>, ports |-> <<TcpPort(port)>>]>>
     ELSE <<>>) \o
    AllowFromRules(a.security.network_policy.allow_from, port)

\* generate_network_policy adding the DNS rule whether or not allow_to is set
AppEgressRules_DnsAlways(a) ==
    <<DnsRule>> \o AllowToRules(a.security.network_policy.allow_to)

\* the egress rule list built by k3sapp generate_network_policy
AppEgressRules(a) ==
    IF a.security.network_policy.allow_to # <<>>
    THEN <<DnsRule>> \o AllowToRules(a.security.network_policy.allow_to)
    ELSE <<>>

\* k3sapp generate_network_policy (None when the network policy is disabled)
app_generate_network_policy(a, e) ==
    LET name == Join(AppToK8sName(a.name))
        egress_rules == AppEgressRules(a)
    IN IF ~a.security.network_policy.enabled THEN None
       ELSE Some(
        [apiVersion |-> "networking.k8s.io/v1", kind |-> "NetworkPolicy",
         metadata |-> [name |-> name \o "-policy", namespace |-> a.namespace,
                       labels |-> AppLabels(a) \o
                           <<<<"k3sapp.io/visibility", a.security.visibility>>>>],
         spec |-> [podSelector |-> {<<"app", name>>},
                   policyTypes |-> IF a.security.network_policy.allow_to # <<>>
                                   THEN <<"Ingress", "Egress">> ELSE <<"Ingress">>,
                   ingress |-> AppIngressRules(a),
                   egress |-> IF egress_rules # <<>> THEN Some(egress_rules) ELSE None]])

\* generate_pdb (None unless the override configures a budget)
generate_pdb(a, e) ==
    LET env_override == get_env_override(a, e)
        name == Join(AppToK8sName(a.name))
    IN IF ~IsSet(env_override) \/ Val(env_override).pod_disruption_budget = None
       THEN None
       ELSE LET pdb == Val(Val(env_override).pod_disruption_budget) IN
            IF pdb.min_available = None /\ pdb.max_unavailable = None THEN None
            ELSE Some(
                [apiVersion |-> "policy/v1", kind |-> "PodDisruptionBudget",
                 metadata |-> [name |-> name, namespace |-> a.namespace,
                               labels |-> AppLabels(a)],
                 spec |-> [selector |-> {<<"app", name>>},
                           minAvailable |-> pdb.min_available,
                           maxUnavailable |-> IF pdb.min_available # None THEN None
                                              ELSE pdb.max_unavailable]])

\* generate_service_account
generate_service_account(a, e) ==
    IF ~a.security.create_service_account THEN None
    ELSE IF a.security.service_account = None \/ a.security.service_account = Some("")
    THEN None
    ELSE Some(
        [apiVersion |-> "v1", kind |-> "ServiceAccount",
         metadata |-> [name |-> Val(a.security.service_account),
                       namespace |-> a.namespace,
                       labels |-> <<<<"k3sapp.io/app", Join(a.name)>>>>,
                       annotations |-> a.security.service_account_annotations]])

\* generate_pvc
generate_pvc(vol, namespace) ==
    [apiVersion |-> "v1", kind |-> "PersistentVolumeClaim",
     metadata |-> [name |-> vol.name, namespace |-> namespace],
     spec |-> [storageClassName |-> "standard", storage |-> "1Gi"]]

RECURSIVE ExternalSecretData_AnyProvider(_)
\* the data list with an entry for every reference, whatever its provider
ExternalSecretData_AnyProvider(refs) ==
    IF refs = <<>> THEN <<>>
    ELSE <<[secretKey |-> Head(refs)[1],
            remoteRef |-> [key |-> Head(refs)[2].secret,
                           version |-> IF Head(refs)[2].version # "latest"
                                       THEN Some(Head(refs)[2].version) ELSE None,
                           property |-> Head(refs)[2].key]]>>
         \o ExternalSecretData_AnyProvider(Tail(refs))

RECURSIVE ExternalSecretData(_)
\* the data list built from the gcp secret references
ExternalSecretData(refs) ==
    IF refs = <<>> THEN <<>>
    ELSE (IF Head(refs)[2].provider = "gcp"
          THEN <<[secretKey |-> Head(refs)[1],
                  remoteRef |-> [key |-> Head(refs)[2].secret,
                                 version |-> IF Head(refs)[2].version # "latest"
                                             THEN Some(Head(refs)[2].version) ELSE None,
                                 property |-> Head(refs)[2].key]]>>
          ELSE <<>>) \o ExternalSecretData(Tail(refs))

\* k3sapp generate_external_secret
generate_external_secret(a, e) ==
    LET secret_refs == get_secret_refs(a)
        name == Join(AppToK8sName(a.name))
        data == ExternalSecretData(secret_refs)
    IN IF secret_refs = <<>> THEN None
       ELSE IF e = "local" THEN None
       ELSE IF data = <<>> THEN None
       ELSE Some(
        [apiVersion |-> "external-secrets.io/v1beta1", kind |-> "ExternalSecret",
         metadata |-> [name |-> name \o "-secrets", namespace |-> a.namespace,
                       labels |-> AppLabels(a)],
         spec |-> [refreshInterval |-> "1h",
                   secretStoreRef |-> [kind |-> "ClusterSecretStore",
                                       name |-> "gcp-secret-manager"],
                   target |-> [name |-> name \o "-secrets", creationPolicy |-> "Owner"],
                   data |-> data]])

\* the scaling branch of generate_all_manifests
ScalingManifests(a, e) ==
    LET scaling == get_effective_scaling(a, e) IN
    IF scaling.type = "keda-http" THEN generate_httpscaledobject(a, e)
    ELSE IF scaling.type = "hpa" THEN generate_hpa(a, e)
    ELSE IF scaling.type = "keda-queue"
    THEN generate_trigger_authentication(a, e) \o generate_keda_scaledobject_queue(a, e)
    ELSE IF scaling.type = "keda-cron" THEN generate_keda_scaledobject_cron(a, e)
    ELSE <<>>

RECURSIVE PvcManifests(_, _)
PvcManifests(vols, namespace) ==
    IF vols = <<>> THEN <<>>
    ELSE (IF Head(vols).type = "pvc" THEN <<generate_pvc(Head(vols), namespace)>>
          ELSE <<>>) \o PvcManifests(Tail(vols), namespace)

\* k3sapp generate_all_manifests
generate_all_manifests(a, e, d, environ) ==
    LET image == resolve_registry_url(a, e, d) IN
    generate_external_secret(a, e)
    \o (IF a.security.create_service_account THEN generate_service_account(a, e)
        ELSE <<>>)
    \o <<generate_deployment(a, e, image, environ)>>
    \o <<generate_service(a, e)>>
    \o ScalingManifests(a, e)
    \o generate_ingress(a, e, d)
    \o app_generate_network_policy(a, e)
    \o generate_pdb(a, e)
    \o PvcManifests(a.volumes, a.namespace)

(***************************************************************************)
(* k3sfn/cli.py generate_network_policy                                    *)
(***************************************************************************)
FnVisibilities == {"public", "internal", "private", "restricted"}

TriggerTypes == {"http", "queue", "schedule", "event"}

\* the from_rules list built for RESTRICTED from func.access_rules
FnFromRules(rules) ==
    [i \in 1..Len(rules.namespaces) |-> NamespacePeer(rules.namespaces[i])]
    \o (IF rules.pod_labels # {} THEN <<Peer(None, Some(rules.pod_labels), None)>>
        ELSE <<>>)

\* keda_rule appended in every branch
FnAppendsKeda_Always(f) == TRUE

\* keda_rule is appended in this branch of the visibility case analysis
FnAppendsKeda(f) ==
    \/ f.visibility = "public"
    \/ f.visibility \in {"private", "restricted"} /\ f.trigger_type = "http"

\* the ingress rule list built by k3sfn generate_network_policy
FnIngressRules(f) ==
    (IF f.visibility = "public"
     THEN <<[from |-> <<Peer(Some({<<"kubernetes.io/metadata.name", "kube-system">>}),
                             Some({<<"app.kubernetes.io/name", "traefik">>}), None)>>,
             ports |-> <<TcpPort(8080)>>]>>
     ELSE IF f.visibility = "internal"
     THEN <<[from |-> <<Peer(Some({}), None, None)>>, ports |-> <<TcpPort(8080)>>]>>
     ELSE IF f.visibility = "private"
     THEN <<[from |-> <<Peer(None, Some({}), None)>>, ports |-> <<TcpPort(8080)>>]>>
     ELSE IF f.visibility = "restricted"
             /\ IsSet(f.access_rules) /\ FnFromRules(Val(f.access_rules)) # <<>>
     THEN <<[from |-> FnFromRules(Val(f.access_rules)), ports |-> <<TcpPort(8080)>>]>>
     ELSE <<>>)
    \o (IF FnAppendsKeda(f) THEN <<KedaRule(8080)>> ELSE <<>>)

\* k3sfn generate_network_policy
fn_generate_network_policy(f, app_name, namespace) ==
    LET name == Join(AppToK8sName(app_name \o <<"-">> \o f.name)) IN
    [apiVersion |-> "networking.k8s.io/v1", kind |-> "NetworkPolicy",
     metadata |-> [name |-> name \o "-ingress", namespace |-> namespace,
                   labels |-> <<<<"app", name>>, <<"k3sfn.io/app", Join(app_name)>>,
                                <<"k3sfn.io/function", Join(f.name)>>,
                                <<"k3sfn.io/visibility", f.visibility>>>>],
     spec |-> [podSelector |-> {<<"app", name>>},
               policyTypes |-> <<"Ingress">>,
               ingress |-> FnIngressRules(f),
               egress |-> None]]

(***************************************************************************)
(* k3scompose/generators.py generate_network_policy                        *)
(***************************************************************************)
Digits == {"0", "1", "2", "3", "4", "5", "6", "7", "8", "9"}

RECURSIVE StripDashes(_)
\* str.strip("-")
StripDashes(cs) ==
    IF cs # <<>> /\ Head(cs) = "-" THEN StripDashes(Tail(cs))
    ELSE IF cs # <<>> /\ cs[Len(cs)] = "-" THEN StripDashes(SubSeq(cs, 1, Len(cs) - 1))
    ELSE cs

RECURSIVE CollapseDashes(_)
\* re.sub(r"-+", "-", name)
CollapseDashes(cs) ==
    IF Len(cs) < 2 THEN cs
    ELSE IF cs[1] = "-" /\ cs[2] = "-" THEN CollapseDashes(Tail(cs))
    ELSE <<Head(cs)>> \o CollapseDashes(Tail(cs))

\* re.sub(r"[^a-z0-9-]", "-", c) for one character
ComposeNameChar(c) ==
    IF c \in Range(LowerChars) \cup Digits \cup {"-"} THEN c ELSE "-"

\* name[:63]
ComposeTruncate(cs) == SubSeq(cs, 1, IF Len(cs) < 63 THEN Len(cs) ELSE 63)

\* k3scompose _to_k8s_name: lower-case, replace what is not [a-z0-9-] by "-",
\* strip "-" at both ends, collapse runs of "-", keep the first 63 characters
ComposeToK8sName(name) ==
    ComposeTruncate(CollapseDashes(StripDashes(
        [i \in 1..Len(name) |-> ComposeNameChar(Lower(name[i]))])))

\* ComposeConfig.get_effective_namespace
compose_get_effective_namespace(c, e) ==
    LET override == c.overrides[e] IN
    IF IsSet(override) /\ Val(override).namespace # "" THEN Val(override).namespace
    ELSE c.namespace

\* ComposeConfig.get_effective_security: the override's security when the
\* override block sets one, else the project's base security
compose_get_effective_security(c, e) ==
    IF IsSet(c.overrides[e]) /\ IsSet(Val(c.overrides[e]).security)
    THEN Val(Val(c.overrides[e]).security)
    ELSE c.security

\* a call that raises an exception / a call that returns a value
Raise(message) == [raised |-> Some(message), value |-> None]
Return(v) == [raised |-> None, value |-> Some(v)]

\* DeployConfig.from_dict, for the key replicas (d is None when the service
\* has no deploy block, else the block's replicas key, None when absent)
DeployConfig_from_dict(d) ==
    IF ~IsSet(d) \/ ~IsSet(Val(d)) THEN [replicas |-> 1]
    ELSE [replicas |-> Val(Val(d))]

\* the image chosen by k3scompose generate_deployment; None when the service
\* has neither image nor build
ComposeImage(service, project, registry) ==
    LET name == Join(ComposeToK8sName(service.name))
        project_name == Join(ComposeToK8sName(project.name))
    IN IF IsSet(service.image) /\ Val(service.image) # "" THEN service.image
       ELSE IF service.build
       THEN IF IsSet(registry) /\ Val(registry) # ""
            THEN Some(Val(registry) \o "/" \o project_name \o "-" \o name \o ":latest")
            ELSE Some(project_name \o "-" \o name \o ":latest")
       ELSE None

\* replicas as k3scompose generate_deployment determines them
ComposeReplicas(service, overrides) ==
    IF IsSet(overrides) /\ IsSet(Val(overrides).replicas)
       /\ Val(Val(overrides).replicas) # 0
    THEN Val(Val(overrides).replicas)
    ELSE service.deploy.replicas

RECURSIVE JoinWith(_, _)
\* sep.join(strings)
JoinWith(sep, strings) ==
    IF strings = <<>> THEN ""
    ELSE IF Len(strings) = 1 THEN strings[1]
    ELSE strings[1] \o sep \o JoinWith(sep, Tail(strings))

(***************************************************************************)
(* k3scompose: docker-compose notation.  A string is the sequence of its   *)
(* characters.  types.py PortMapping.parse and VolumeMount.parse,          *)
(* generators.py _parse_duration, _convert_memory, _convert_cpu.           *)
(***************************************************************************)
\* str.upper() on one character
Upper(c) ==
    IF \E i \in 1..Len(LowerChars) : LowerChars[i] = c
    THEN UpperChars[CHOOSE i \in 1..Len(LowerChars) : LowerChars[i] = c]
    ELSE c

RECURSIVE SplitOn(_, _, _)
\* str.split(sep) for a one-character sep: cur is the part being read
SplitOn(cs, sep, cur) ==
    IF cs = <<>> THEN <<cur>>
    ELSE IF Head(cs) = sep THEN <<cur>> \o SplitOn(Tail(cs), sep, <<>>)
    ELSE SplitOn(Tail(cs), sep, Append(cur, Head(cs)))

\* the position of the last sep in cs, 0 when cs has none
LastIndexOf(cs, sep) ==
    IF \E i \in 1..Len(cs) : cs[i] = sep
    THEN CHOOSE i \in 1..Len(cs) : cs[i] = sep /\ \A j \in (i + 1)..Len(cs) : cs[j] # sep
    ELSE 0

\* the value of a decimal digit
DigitValue(c) == CHOOSE d \in 0..9 : ToString(d) = c

RECURSIVE DigitsValue(_, _)
\* the number a string of decimal digits denotes, read after acc
DigitsValue(cs, acc) ==
    IF cs = <<>> THEN acc
    ELSE DigitsValue(Tail(cs), 10 * acc + DigitValue(Head(cs)))

RECURSIVE DecimalOf(_)
\* str(n) for n >= 0, as characters
DecimalOf(n) ==
    IF n < 10 THEN <<ToString(n)>>
    ELSE Append(DecimalOf(n \div 10), ToString(n % 10))

\* int(s) for a string without sign, blank or underscore: None stands for
\* the ValueError int raises on the empty string and on a non-digit
ParseInt(cs) ==
    IF cs # <<>> /\ \A i \in 1..Len(cs) : cs[i] \in Digits
    THEN Some(DigitsValue(cs, 0)) ELSE None

\* cls(host_port, container_port, protocol) with int() applied to the port
\* texts (host is None for host_port=None); the ValueError of int otherwise
PortMappingOf(host, container, protocol) ==
    IF ~IsSet(ParseInt(container)) \/ (IsSet(host) /\ ~IsSet(ParseInt(Val(host))))
    THEN Raise("ValueError")
    ELSE Return([host_port |-> IF IsSet(host) THEN ParseInt(Val(host)) ELSE None,
                 container_port |-> Val(ParseInt(container)),
                 protocol |-> protocol])

\* the ":" part without the branch for three parts
PortMappingOfParts_NoAddress(port_str, protocol) ==
    LET parts == SplitOn(port_str, ":", <<>>) IN
    IF Len(parts) = 1 THEN PortMappingOf(None, port_str, protocol)
    ELSE IF Len(parts) = 2 THEN PortMappingOf(Some(parts[1]), parts[2], protocol)
    ELSE [raised |-> None, value |-> None]

\* the ":" part of PortMapping.parse, on the text left of the protocol; with
\* four parts or more the function falls off its end and returns None
PortMappingOfParts(port_str, protocol) ==
    LET parts == SplitOn(port_str, ":", <<>>) IN
    IF Len(parts) = 1 THEN PortMappingOf(None, port_str, protocol)
    ELSE IF Len(parts) = 2 THEN PortMappingOf(Some(parts[1]), parts[2], protocol)
    ELSE IF Len(parts) = 3
    THEN PortMappingOf(IF parts[2] # <<>> THEN Some(parts[2]) ELSE None,
                       parts[3], protocol)
    ELSE [raised |-> None, value |-> None]

\* PortMapping.parse(port_spec) for an int ([int |-> <<p>>]) and for a string
\* ([int |-> None, str |-> text]); the dict form is not modelled
PortMapping_parse(port_spec) ==
    IF IsSet(port_spec.int)
    THEN Return([host_port |-> port_spec.int,
                 container_port |-> Val(port_spec.int), protocol |-> "TCP"])
    ELSE LET slash == LastIndexOf(port_spec.str, "/") IN
         IF slash > 0
         THEN PortMappingOfParts(
                SubSeq(port_spec.str, 1, slash - 1),
                Join([i \in 1..(Len(port_spec.str) - slash) |->
                        Upper(port_spec.str[slash + i])]))
         ELSE PortMappingOfParts(port_spec.str, "TCP")

\* the number of decimal digits cs starts with
LeadingDigits(cs) ==
    IF \E n \in 1..Len(cs) : \A i \in 1..n : cs[i] \in Digits
    THEN CHOOSE n \in 1..Len(cs) :
            /\ \A i \in 1..n : cs[i] \in Digits
            /\ (n < Len(cs) => cs[n + 1] \notin Digits)
    ELSE 0

\* the unit after the n digits duration starts with ("s" when there is none)
DurationUnit(duration, n) ==
    IF n < Len(duration) /\ duration[n + 1] \in {"s", "m", "h"} THEN duration[n + 1]
    ELSE "s"

\* the seconds of one unit
UnitSeconds(unit) == IF unit = "m" THEN 60 ELSE IF unit = "h" THEN 3600 ELSE 1

\* the value of a duration that starts with n digits (0: the pattern does
\* not match)
DurationOf(duration, n) ==
    IF n = 0 THEN 0
    ELSE DigitsValue(SubSeq(duration, 1, n), 0) * UnitSeconds(DurationUnit(duration, n))

\* k3scompose _parse_duration: re.match(r"(\d+)(s|m|h)?", duration) reads the
\* digits the string starts with and the one unit character after them
parse_duration(duration) ==
    IF duration = <<>> THEN 0 ELSE DurationOf(duration, LeadingDigits(duration))

\* the exec action that takes every test for an argument vector
ProbeExec_Argv(test) ==
    IF test[1] \in {"CMD", "CMD-SHELL"} THEN [command |-> Tail(test)]
    ELSE [command |-> test]

\* the exec action of the probe _build_probe makes of a non-empty test
ProbeExec(test) ==
    IF test[1] = "CMD" THEN [command |-> Tail(test)]
    ELSE IF test[1] = "CMD-SHELL"
    THEN [command |-> <<"/bin/sh", "-c", JoinWith(" ", Tail(test))>>]
    ELSE [command |-> test]

\* v or d for numbers
OrElse(v, d) == IF v # 0 THEN v ELSE d

\* _parse_duration(duration) or 30
DurationOr30(duration) == OrElse(parse_duration(duration), 30)

\* the number when it is positive
PositiveOnly(v) == IF v > 0 THEN Some(v) ELSE None

\* the list when it is not empty
NonEmptyOnly(s) == IF s # <<>> THEN Some(s) ELSE None

\* k3scompose _build_probe (None: no probe)
build_probe(healthcheck) ==
    IF ~IsSet(healthcheck) \/ Val(healthcheck).test = <<>> THEN None
    ELSE IF Val(healthcheck).test[1] = "NONE" THEN None
    ELSE Some([periodSeconds |-> DurationOr30(Val(healthcheck).interval),
               timeoutSeconds |-> DurationOr30(Val(healthcheck).timeout),
               failureThreshold |-> Val(healthcheck).retries,
               initialDelaySeconds |->
                    PositiveOnly(parse_duration(Val(healthcheck).start_period)),
               exec |-> ProbeExec(Val(healthcheck).test)])

RECURSIVE ComposeMergeEnv(_, _)
\* the env_vars list of k3scompose generate_deployment after merging the
\* override's environment: an overridden key is removed and appended
ComposeMergeEnv(env_vars, extra) ==
    IF extra = <<>> THEN env_vars
    ELSE ComposeMergeEnv(
            SelectSeq(env_vars, LAMBDA x : x.name # Head(extra)[1])
                \o <<[name |-> Head(extra)[1], value |-> Head(extra)[2]]>>,
            Tail(extra))

\* str.startswith(prefix)
StartsWith(cs, prefix) ==
    Len(cs) >= Len(prefix) /\ SubSeq(cs, 1, Len(prefix)) = prefix

\* the type VolumeMount.parse gives a string specification by its source
VolumeTypeOf(source) ==
    IF StartsWith(source, <<"/">>) \/ StartsWith(source, <<".", "/">>)
       \/ StartsWith(source, <<".", ".", "/">>)
    THEN "bind"
    ELSE IF source = <<>> THEN "tmpfs"
    ELSE "volume"

\* VolumeMount.parse of the string form "source:target[:ro]"
VolumeMountOfParts(parts) ==
    [source |-> parts[1],
     target |-> IF Len(parts) >= 2 THEN parts[2] ELSE parts[1],
     read_only |-> Len(parts) >= 3 /\ parts[3] = <<"r", "o">>,
     type |-> VolumeTypeOf(parts[1])]

\* VolumeMount.parse: volume_spec is [form |-> "str", text] or
\* [form |-> "dict", source, target, read_only, type] with Optional source,
\* read_only and type
VolumeMount_parse(volume_spec) ==
    IF volume_spec.form = "dict"
    THEN [source |-> IF IsSet(volume_spec.source) THEN Val(volume_spec.source) ELSE <<>>,
          target |-> volume_spec.target,
          read_only |-> IF IsSet(volume_spec.read_only) THEN Val(volume_spec.read_only)
                        ELSE FALSE,
          type |-> IF IsSet(volume_spec.type) THEN Val(volume_spec.type) ELSE "bind"]
    ELSE VolumeMountOfParts(SplitOn(volume_spec.text, ":", <<>>))

\* the name generate_deployment gives the mount of a volume, after the
\* mounts already built
VolumeMountName(vol, volume_mounts) ==
    IF vol.source # <<>> THEN Join(ComposeToK8sName(vol.source))
    ELSE "vol-" \o ToString(Len(volume_mounts))

\* generate_deployment: the mount of a volume named name
VolumeMountNamed(vol, name) ==
    [name |-> name, mountPath |-> Join(vol.target),
     readOnly |-> IF vol.read_only THEN Some(TRUE) ELSE None]

RECURSIVE ComposeVolumeMounts(_, _)
\* generate_deployment: the loop over service.volumes that builds
\* volume_mounts
ComposeVolumeMounts(vols, volume_mounts) ==
    IF vols = <<>> THEN volume_mounts
    ELSE IF Head(vols).type \notin {"volume", "bind"}
    THEN ComposeVolumeMounts(Tail(vols), volume_mounts)
    ELSE ComposeVolumeMounts(
            Tail(vols),
            Append(volume_mounts,
                   VolumeMountNamed(Head(vols), VolumeMountName(Head(vols), volume_mounts))))

\* _build_volumes: the entry appended for a volume whose source has the
\* Kubernetes name k8s_name
VolumeEntry(vol, volumes, k8s_name) ==
    IF vol.type = "volume"
    THEN [name |-> k8s_name, kind |-> "persistentVolumeClaim", source |-> k8s_name]
    ELSE IF vol.type = "bind"
    THEN [name |-> IF k8s_name # "" THEN k8s_name ELSE "bind-" \o ToString(Len(volumes)),
          kind |-> "hostPath", source |-> Join(vol.source)]
    ELSE [name |-> "tmpfs-" \o ToString(Len(volumes)), kind |-> "emptyDir",
          source |-> "Memory"]

\* _build_volumes: volumes and seen after the entry of one volume
VolumesWith(built, entry, dedup) ==
    IF dedup /\ entry.name \in built.seen THEN built
    ELSE [volumes |-> Append(built.volumes, entry),
          seen |-> IF dedup THEN built.seen \cup {entry.name} ELSE built.seen]

RECURSIVE BuildVolumes(_, _)
\* _build_volumes: the loop over service.volumes; built is [volumes, seen]
BuildVolumes(vols, built) ==
    IF vols = <<>> THEN built.volumes
    ELSE IF Head(vols).type \notin {"volume", "bind", "tmpfs"}
    THEN BuildVolumes(Tail(vols), built)
    ELSE BuildVolumes(
            Tail(vols),
            VolumesWith(built,
                        VolumeEntry(Head(vols), built.volumes,
                                    Join(ComposeToK8sName(Head(vols).source))),
                        Head(vols).type # "tmpfs"))

\* _build_volumes
build_volumes(service) == BuildVolumes(service.volumes, [volumes |-> <<>>, seen |-> {}])

\* k3scompose generate_deployment, for services without entrypoint, command,
\* working_dir, resources and user
compose_generate_deployment(service, project, namespace, registry, overrides) ==
    LET name == Join(ComposeToK8sName(service.name))
        project_name == Join(ComposeToK8sName(project.name))
        image == ComposeImage(service, project, registry)
        replicas == ComposeReplicas(service, overrides)
        env_vars == ComposeMergeEnv(
                        [i \in 1..Len(service.environment) |->
                            [name |-> service.environment[i][1],
                             value |-> service.environment[i][2]]],
                        IF IsSet(overrides) THEN Val(overrides).environment ELSE <<>>)
        container ==
            [name |-> name, image |-> Val(image),
             ports |-> IF service.ports # <<>>
                       THEN Some([i \in 1..Len(service.ports) |->
                                [containerPort |-> service.ports[i].container_port,
                                 protocol |-> service.ports[i].protocol]])
                       ELSE None,
             env |-> IF env_vars # <<>> THEN Some(env_vars) ELSE None,
             envFrom |-> None,
             livenessProbe |-> build_probe(service.healthcheck),
             readinessProbe |-> build_probe(service.healthcheck),
             volumeMounts |-> NonEmptyOnly(ComposeVolumeMounts(service.volumes, <<>>))]
        labels == <<<<"app", name>>, <<"k3scompose.io/project", project_name>>,
                    <<"k3scompose.io/service", Join(service.name)>>>>
    IN IF ~IsSet(image)
       THEN Raise("Service " \o Join(service.name) \o " has no image or build context")
       ELSE Return(
        [apiVersion |-> "apps/v1", kind |-> "Deployment",
         metadata |-> [name |-> name, namespace |-> namespace, labels |-> labels],
         spec |-> [replicas |-> replicas,
                   selector |-> {<<"app", name>>},
                   template |-> [metadata |-> [labels |-> labels],
                                 spec |-> [containers |-> <<container>>,
                                           volumes |-> NonEmptyOnly(build_volumes(service)),
                                           serviceAccountName |-> None]]]])

\* k3scompose generate_service (None when the service has no ports)
compose_generate_service(service, project, namespace) ==
    LET name == Join(ComposeToK8sName(service.name))
        project_name == Join(ComposeToK8sName(project.name))
    IN IF service.ports = <<>> THEN None
       ELSE Some(
        [apiVersion |-> "v1", kind |-> "Service",
         metadata |-> [name |-> name, namespace |-> namespace,
                       labels |-> <<<<"app", name>>,
                                    <<"k3scompose.io/project", project_name>>,
                                    <<"k3scompose.io/service", Join(service.name)>>>>],
         spec |-> [selector |-> {<<"app", name>>},
                   ports |-> [i \in 1..Len(service.ports) |->
                       [name |-> IF i > 1 THEN "port-" \o ToString(i - 1) ELSE "http",
                        port |-> IF IsSet(service.ports[i].host_port)
                                    /\ Val(service.ports[i].host_port) # 0
                                 THEN Val(service.ports[i].host_port)
                                 ELSE service.ports[i].container_port,
                        targetPort |-> service.ports[i].container_port,
                        protocol |-> service.ports[i].protocol]]]])

\* k3scompose generate_service_account
compose_generate_service_account(c, e) ==
    LET security == compose_get_effective_security(c, e) IN
    IF ~security.create_service_account THEN None
    ELSE IF security.service_account = None \/ security.service_account = Some("")
    THEN None
    ELSE Some(
        [apiVersion |-> "v1", kind |-> "ServiceAccount",
         metadata |-> [name |-> Val(security.service_account),
                       namespace |-> compose_get_effective_namespace(c, e),
                       labels |-> <<<<"k3scompose.io/project",
                                      Join(ComposeToK8sName(c.name))>>>>,
                       annotations |-> security.service_account_annotations]])

\* the egress_rules list built by k3scompose generate_network_policy
ComposeEgressRules(security) ==
    <<DnsRule>> \o
    (IF security.network_policy.allow_to # <<>>
     THEN AllowToRules(security.network_policy.allow_to) ELSE <<>>)

\* the policy_types list built by k3scompose generate_network_policy
ComposePolicyTypes(security) ==
    IF security.network_policy.allow_to # <<>>
    THEN <<"Ingress", "Egress">> ELSE <<"Ingress">>

\* k3scompose generate_network_policy (None when the policy is disabled)
compose_generate_network_policy(service, c, e) ==
    LET security == compose_get_effective_security(c, e)
        name == Join(ComposeToK8sName(service.name))
        namespace == compose_get_effective_namespace(c, e)
        primary_port == IF service.ports # <<>> THEN service.ports[1].container_port
                        ELSE 80
        policy_types == ComposePolicyTypes(security)
    IN IF ~security.network_policy.enabled THEN None
       ELSE Some(
        [apiVersion |-> "networking.k8s.io/v1", kind |-> "NetworkPolicy",
         metadata |-> [name |-> name \o "-policy", namespace |-> namespace,
                       labels |-> <<<<"app", name>>,
                                    <<"k3scompose.io/project",
                                      Join(ComposeToK8sName(c.name))>>,
                                    <<"k3scompose.io/service", Join(service.name)>>>>],
         spec |-> [podSelector |-> {<<"app", name>>},
                   policyTypes |-> policy_types,
                   ingress |-> <<[from |-> <<Peer(None, Some({}), None)>>,
                                  ports |-> <<TcpPort(primary_port)>>]>>,
                   egress |-> IF "Egress" \in Range(policy_types)
                              THEN Some(ComposeEgressRules(security)) ELSE None]])

(***************************************************************************)
(* "enabled for environment E": k3sapp/schema.py get_enabled_apps,         *)
(* k3scompose ComposeConfig.is_enabled, k3sfn get_enabled_serverless_apps. *)
(* A raw apps.yaml entry is [name, enabled, blocks]; enabled is None when  *)
(* the key is not set; blocks[e] is None when the entry has no block for   *)
(* e, else the block's dict, of which the keys enabled and replicas are    *)
(* modelled (both None: the empty dict).                                   *)
(***************************************************************************)
\* the dict {} of an override block, for the keys that are modelled
EmptyBlock ==
    [enabled |-> None, replicas |-> None, namespace |-> None, scaling |-> None,
     resources |-> None]

\* bool(data) of an override block's dict
BlockTruthy(b) ==
    IsSet(b) /\ (Val(b).enabled # None \/ Val(b).replicas # None
                 \/ Val(b).namespace # None \/ Val(b).scaling # None
                 \/ Val(b).resources # None)

\* bool(data) of a scaling dict, for the keys type, min_instances, max_instances
ScalingDictTruthy(d) ==
    IsSet(d) /\ (Val(d).type # None \/ Val(d).min_instances # None
                 \/ Val(d).max_instances # None)

\* ScalingConfig.from_dict
ScalingConfig_from_dict(d) ==
    IF ~ScalingDictTruthy(d) THEN DefaultScaling
    ELSE [DefaultScaling EXCEPT
            !.type = IF Val(d).type # None /\ Val(d).type # Some("")
                     THEN Val(Val(d).type) ELSE "keda-http",
            !.min_instances = IF Val(d).min_instances = None THEN 0
                              ELSE Val(Val(d).min_instances),
            !.max_instances = IF Val(d).max_instances = None THEN 10
                              ELSE Val(Val(d).max_instances)]

\* bool(data) of a resources dict
ResourcesDictTruthy(d) ==
    IsSet(d) /\ (Val(d).memory # None \/ Val(d).cpu # None
                 \/ Val(d).memory_limit # None \/ Val(d).cpu_limit # None)

\* ResourcesConfig.from_dict
ResourcesConfig_from_dict(d) ==
    IF ~ResourcesDictTruthy(d) THEN ResourcesConfig("256Mi", "100m", None, None)
    ELSE ResourcesConfig(IF Val(d).memory = None THEN "256Mi" ELSE Val(Val(d).memory),
                         IF Val(d).cpu = None THEN "100m" ELSE Val(Val(d).cpu),
                         Val(d).memory_limit, Val(d).cpu_limit)

\* AppEnvOverride.from_dict
AppEnvOverride_from_dict(b) ==
    IF ~BlockTruthy(b) THEN None
    ELSE Some([DefaultOverride EXCEPT
                 !.enabled = Val(b).enabled,
                 !.replicas = Val(b).replicas,
                 !.resources = IF ResourcesDictTruthy(Val(b).resources)
                               THEN Some(ResourcesConfig_from_dict(Val(b).resources))
                               ELSE None,
                 !.scaling = IF ScalingDictTruthy(Val(b).scaling)
                             THEN Some(ScalingConfig_from_dict(Val(b).scaling))
                             ELSE None])

\* AppConfig.from_dict, for the keys name, enabled, resources, scaling, local,
\* dev, gcp
AppConfig_from_dict(raw) ==
    [DefaultApp EXCEPT
        !.name = raw.name,
        !.enabled = IF raw.enabled = None THEN TRUE ELSE Val(raw.enabled),
        !.resources = ResourcesConfig_from_dict(raw.resources),
        !.scaling = ScalingConfig_from_dict(raw.scaling),
        !.overrides = [e \in Environments |-> AppEnvOverride_from_dict(raw.blocks[e])]]

\* get_enabled_apps that skips an app whenever it has an override block
AppIsEnabled_AnyOverride(a, e) ==
    LET env_override == get_env_override(a, e) IN
    IF ~a.enabled THEN FALSE
    ELSE IF IsSet(env_override) /\ Val(env_override).enabled # Some(TRUE) THEN FALSE
    ELSE TRUE

\* the test get_enabled_apps applies to one app
AppIsEnabled(a, e) ==
    LET env_override == get_env_override(a, e) IN
    IF ~a.enabled THEN FALSE
    ELSE IF IsSet(env_override) /\ Val(env_override).enabled = Some(FALSE) THEN FALSE
    ELSE TRUE

RECURSIVE SelectByMask(_, _)
\* the elements of s whose mask entry is TRUE, in order
SelectByMask(s, mask) ==
    IF s = <<>> THEN <<>>
    ELSE (IF Head(mask) THEN <<Head(s)>> ELSE <<>>) \o SelectByMask(Tail(s), Tail(mask))

\* schema.get_enabled_apps, on the parsed config
get_enabled_apps(apps, e) ==
    SelectByMask(apps, [i \in 1..Len(apps) |-> AppIsEnabled(apps[i], e)])

\* ComposeOverrides.from_dict
ComposeOverrides_from_dict(b) ==
    IF ~BlockTruthy(b)
    THEN [namespace |-> "apps", enabled |-> TRUE, replicas |-> None, security |-> None,
          environment |-> <<>>]
    ELSE [namespace |-> IF Val(b).namespace = None THEN "apps" ELSE Val(Val(b).namespace),
          enabled |-> IF Val(b).enabled = None THEN TRUE ELSE Val(Val(b).enabled),
          replicas |-> Val(b).replicas,
          security |-> None,
          environment |-> <<>>]

\* ComposeConfig.from_dict
ComposeConfig_from_dict(raw) ==
    [name |-> raw.name,
     namespace |-> IF raw.namespace = None THEN "apps" ELSE Val(raw.namespace),
     enabled |-> IF raw.enabled = None THEN TRUE ELSE Val(raw.enabled),
     security |-> DefaultSecurity,
     overrides |-> [e \in Environments |-> Some(ComposeOverrides_from_dict(raw.blocks[e]))]]

\* ComposeConfig.is_enabled
is_enabled(c, e) ==
    LET override == c.overrides[e] IN
    IF ~c.enabled THEN FALSE
    ELSE IF IsSet(override) /\ ~Val(override).enabled THEN FALSE
    ELSE TRUE

\* parser.get_enabled_compose_projects
get_enabled_compose_projects(configs, e) ==
    SelectByMask(configs, [i \in 1..Len(configs) |-> is_enabled(configs[i], e)])

\* the test get_enabled_serverless_apps applies to one raw entry:
\* serverless.get("enabled", True), serverless.get(env, {}).get("enabled")
ServerlessIsEnabled(raw, e) ==
    LET env_override == IF IsSet(raw.blocks[e]) THEN Val(raw.blocks[e])
                        ELSE EmptyBlock
    IN IF ~(IF raw.enabled = None THEN TRUE ELSE Val(raw.enabled)) THEN FALSE
       ELSE IF env_override.enabled = Some(FALSE) THEN FALSE
       ELSE TRUE

\* k3sfn get_enabled_serverless_apps
get_enabled_serverless_apps(raws, e) ==
    SelectByMask(raws, [i \in 1..Len(raws) |-> ServerlessIsEnabled(raws[i], e)])

(***************************************************************************)
(* k3sfn/cli.py: the manifests of one serverless app.  A function is       *)
(* [name, trigger_type, visibility, access_rules, http_trigger]; the       *)
(* http_trigger is None for a function that no http_trigger decorator was  *)
(* applied to, else its path.  Of a Deployment, HTTPScaledObject,          *)
(* ScaledObject and CronJob the metadata and the references to other       *)
(* objects are modelled.                                                   *)
(***************************************************************************)
\* f"{app_name}-{func.name}".replace("_", "-").lower()
FnResourceName(f, app_name) ==
    Join([i \in 1..(Len(app_name) + 1 + Len(f.name)) |->
            LET c == (app_name \o <<"-">> \o f.name)[i]
            IN Lower(IF c = "_" THEN "-" ELSE c)])

\* the labels app, k3sfn.io/app and k3sfn.io/function
FnLabels(f, app_name) ==
    <<<<"app", FnResourceName(f, app_name)>>, <<"k3sfn.io/app", Join(app_name)>>,
      <<"k3sfn.io/function", Join(f.name)>>>>

\* k3sfn generate_deployment
fn_generate_deployment(f, app_name, namespace, registry) ==
    [apiVersion |-> "apps/v1", kind |-> "Deployment",
     metadata |-> [name |-> FnResourceName(f, app_name), namespace |-> namespace,
                   labels |-> FnLabels(f, app_name)
                              \o <<<<"k3sfn.io/trigger", f.trigger_type>>>>],
     spec |-> [selector |-> {<<"app", FnResourceName(f, app_name)>>},
               image |-> IF registry # "" THEN registry \o "/" \o Join(app_name) \o ":latest"
                         ELSE Join(app_name) \o ":latest"]]

\* k3sfn generate_service
fn_generate_service(f, app_name, namespace) ==
    [apiVersion |-> "v1", kind |-> "Service",
     metadata |-> [name |-> FnResourceName(f, app_name), namespace |-> namespace,
                   labels |-> FnLabels(f, app_name)],
     spec |-> [type |-> None, externalName |-> None,
               selector |-> Some({<<"app", FnResourceName(f, app_name)>>}),
               ports |-> <<[name |-> "", port |-> 80, targetPort |-> 8080,
                            protocol |-> "TCP"]>>]]

\* k3sfn generate_httpscaledobject
fn_generate_httpscaledobject(f, app_name, namespace) ==
    LET name == FnResourceName(f, app_name) IN
    [apiVersion |-> "http.keda.sh/v1alpha1", kind |-> "HTTPScaledObject",
     metadata |-> [name |-> name, namespace |-> namespace,
                   labels |-> FnLabels(f, app_name)],
     spec |-> [hosts |-> <<name \o "." \o namespace>>,
               pathPrefixes |-> <<IF IsSet(f.http_trigger) THEN Val(f.http_trigger)
                                  ELSE "/" \o name>>,
               scaleTargetRef |-> [name |-> name, kind |-> "Deployment",
                                   service |-> name, port |-> 80]]]

\* k3sfn generate_scaledobject
fn_generate_scaledobject(f, app_name, namespace) ==
    [apiVersion |-> "keda.sh/v1alpha1", kind |-> "ScaledObject",
     metadata |-> [name |-> FnResourceName(f, app_name), namespace |-> namespace,
                   labels |-> FnLabels(f, app_name)],
     spec |-> [scaleTargetRef |-> [name |-> FnResourceName(f, app_name)]]]

\* k3sfn generate_cronjob
fn_generate_cronjob(f, app_name, namespace, registry) ==
    [apiVersion |-> "batch/v1", kind |-> "CronJob",
     metadata |-> [name |-> FnResourceName(f, app_name), namespace |-> namespace,
                   labels |-> FnLabels(f, app_name)],
     spec |-> [image |-> IF registry # "" THEN registry \o "/" \o Join(app_name) \o ":latest"
                         ELSE Join(app_name) \o ":latest"]]

\* k3sfn generate_haproxy_route_service
fn_generate_haproxy_route_service(f, app_name, namespace) ==
    [apiVersion |-> "v1", kind |-> "Service",
     metadata |-> [name |-> "keda-route-" \o FnResourceName(f, app_name),
                   namespace |-> namespace,
                   labels |-> FnLabels(f, app_name)
                              \o <<<<"k3sfn.io/component", "keda-route">>>>],
     spec |-> [type |-> Some("ExternalName"),
               externalName |->
                   Some("keda-add-ons-http-interceptor-proxy.keda.svc.cluster.local"),
               selector |-> None,
               ports |-> <<[name |-> "", port |-> 8080, targetPort |-> 8080,
                            protocol |-> "TCP"]>>]]

\* k3sfn generate_haproxy_ingress; raises for a function without http_trigger
fn_generate_haproxy_ingress(f, app_name, namespace) ==
    LET name == FnResourceName(f, app_name)
        routing_host == name \o "." \o namespace
    IN IF ~IsSet(f.http_trigger)
       THEN Raise("Function " \o Join(f.name) \o " is not an HTTP trigger")
       ELSE Return(
        [apiVersion |-> "networking.k8s.io/v1", kind |-> "Ingress",
         metadata |-> [name |-> name \o "-haproxy", namespace |-> namespace,
                       labels |-> FnLabels(f, app_name)
                                  \o <<<<"k3sfn.io/ingress", "haproxy">>>>,
                       annotations |->
            <<<<"haproxy-ingress.github.io/timeout-connect", "10s">>,
              <<"haproxy-ingress.github.io/timeout-server", "180s">>,
              <<"haproxy-ingress.github.io/timeout-client", "180s">>,
              <<"haproxy-ingress.github.io/timeout-queue", "180s">>,
              <<"haproxy-ingress.github.io/retry-on",
                "conn-failure,empty-response,response-timeout">>,
              <<"haproxy-ingress.github.io/retries", "3">>,
              <<"haproxy-ingress.github.io/config-backend",
                "http-request set-header Host " \o routing_host \o "\n">>>>],
         spec |-> [ingressClassName |-> "haproxy",
                   rules |-> <<[paths |->
                       <<[path |-> Val(f.http_trigger), pathType |-> "Prefix",
                          backend |-> [service |-> "keda-route-" \o name,
                                       port |-> 8080]]>>]>>]])

\* k3sfn generate_host_rewrite_middleware
fn_generate_host_rewrite_middleware(f, app_name, namespace) ==
    LET name == FnResourceName(f, app_name) IN
    [apiVersion |-> "traefik.io/v1alpha1", kind |-> "Middleware",
     metadata |-> [name |-> name \o "-host-rewrite", namespace |-> namespace,
                   labels |-> FnLabels(f, app_name)],
     spec |-> [Host |-> name \o "." \o namespace]]

\* k3sfn generate_keda_interceptor_externalname
fn_generate_keda_interceptor_externalname(namespace) ==
    [apiVersion |-> "v1", kind |-> "Service",
     metadata |-> [name |-> "keda-interceptor-proxy", namespace |-> namespace,
                   labels |-> <<<<"k3sfn.io/component", "keda-proxy">>>>],
     spec |-> [type |-> Some("ExternalName"),
               externalName |->
                   Some("keda-add-ons-http-interceptor-proxy.keda.svc.cluster.local"),
               selector |-> None,
               ports |-> <<[name |-> "", port |-> 8080, targetPort |-> 8080,
                            protocol |-> "TCP"]>>]]

\* the functions generate_ingress_routes makes a route for
FnRouted(functions) ==
    SelectSeq(functions, LAMBDA f : f.trigger_type = "http" /\ IsSet(f.http_trigger)
                                    /\ f.visibility = "public")

\* k3sfn generate_ingress_routes, in the order generate_all_manifests appends
\* its results: the middlewares, the IngressRoute, the ExternalName service
\* (a match is written without the backquotes around the host and the path)
fn_generate_ingress_routes(functions, app_name, namespace, host) ==
    LET routed == FnRouted(functions)
        match(f) == IF IsSet(host) /\ Val(host) # ""
                    THEN "Host(" \o Val(host) \o ") && PathPrefix("
                         \o Val(f.http_trigger) \o ")"
                    ELSE "PathPrefix(" \o Val(f.http_trigger) \o ")"
    IN IF routed = <<>> THEN <<>>
       ELSE [i \in 1..Len(routed) |->
                fn_generate_host_rewrite_middleware(routed[i], app_name, namespace)]
            \o <<[apiVersion |-> "traefik.io/v1alpha1", kind |-> "IngressRoute",
                  metadata |-> [name |-> Join(app_name) \o "-routes",
                                namespace |-> namespace,
                                labels |-> <<<<"k3sfn.io/app", Join(app_name)>>>>],
                  spec |-> [entryPoints |-> <<"web", "websecure">>,
                            routes |-> [i \in 1..Len(routed) |->
                                [match |-> match(routed[i]), kind |-> "Rule",
                                 services |-> <<[name |-> "keda-interceptor-proxy",
                                                 port |-> 8080]>>,
                                 middlewares |->
                                    <<[name |-> FnResourceName(routed[i], app_name)
                                                \o "-host-rewrite",
                                       namespace |-> namespace]>>]]]]>>
            \o <<fn_generate_keda_interceptor_externalname(namespace)>>

\* the manifests the first loop of k3sfn generate_all_manifests appends for
\* one function
FnFunctionManifests(f, app_name, namespace, registry) ==
    IF f.trigger_type = "schedule"
    THEN <<fn_generate_cronjob(f, app_name, namespace, registry)>>
    ELSE <<fn_generate_deployment(f, app_name, namespace, registry),
           fn_generate_service(f, app_name, namespace)>>
         \o (IF f.trigger_type = "http"
             THEN <<fn_generate_httpscaledobject(f, app_name, namespace)>>
             ELSE IF f.trigger_type = "queue"
             THEN <<fn_generate_scaledobject(f, app_name, namespace)>>
             ELSE <<>>)
         \o <<fn_generate_network_policy(f, app_name, namespace)>>

RECURSIVE FnAllFunctionManifests(_, _, _, _)
\* the first loop of k3sfn generate_all_manifests over the functions
FnAllFunctionManifests(functions, app_name, namespace, registry) ==
    IF functions = <<>> THEN <<>>
    ELSE FnFunctionManifests(Head(functions), app_name, namespace, registry)
         \o FnAllFunctionManifests(Tail(functions), app_name, namespace, registry)

RECURSIVE FnHaproxyRoutes(_, _, _)
\* the haproxy loop of k3sfn generate_all_manifests: a route service and an
\* Ingress per public HTTP function; the first exception ends it
FnHaproxyRoutes(functions, app_name, namespace) ==
    IF functions = <<>> THEN Return(<<>>)
    ELSE LET f == Head(functions)
             rest == FnHaproxyRoutes(Tail(functions), app_name, namespace)
             ing == fn_generate_haproxy_ingress(f, app_name, namespace)
         IN IF ~(f.trigger_type = "http" /\ f.visibility = "public") THEN rest
            ELSE IF IsSet(ing.raised) THEN ing
            ELSE IF IsSet(rest.raised) THEN rest
            ELSE Return(<<fn_generate_haproxy_route_service(f, app_name, namespace),
                          Val(ing.value)>> \o Val(rest.value))

\* the all_manifests list of k3sfn generate_all_manifests
fn_all_manifests(functions, app_name, namespace, registry, host, ingress_type) ==
    LET first == FnAllFunctionManifests(functions, app_name, namespace, registry)
        routes == FnHaproxyRoutes(functions, app_name, namespace)
    IN IF ingress_type = "haproxy"
       THEN IF IsSet(routes.raised) THEN routes
            ELSE Return(first \o Val(routes.value))
       ELSE Return(first \o fn_generate_ingress_routes(functions, app_name,
                                                       namespace, host))

\* k3sfn generate_all_manifests: source is None when the functions directory
\* is not found, else the functions discover_functions returns; files are
\* the files written so far, the result is [files, raised]
fn_generate_all_manifests(files, source, app_name, output_dir, namespace, registry, host, ingress_type) ==
    LET functions == Val(source)
        dockerfile == DictSet(files, output_dir \o "/Dockerfile",
                              <<[kind |-> "Dockerfile", app_name |-> Join(app_name)]>>)
        all_manifests == fn_all_manifests(functions, app_name, namespace, registry,
                                          host, ingress_type)
    IN IF ~IsSet(source)
       THEN [files |-> files, raised |-> Some("Functions directory not found")]
       ELSE IF functions = <<>> THEN [files |-> files, raised |-> None]
       ELSE IF IsSet(all_manifests.raised)
       THEN [files |-> dockerfile, raised |-> all_manifests.raised]
       ELSE [files |-> DictSet(
                        DictSet(dockerfile, output_dir \o "/manifests.yaml",
                                Val(all_manifests.value)),
                        output_dir \o "/k3sfn.json",
                        <<[kind |-> "k3sfn.json", app_name |-> Join(app_name),
                           namespace |-> namespace,
                           functions |-> [i \in 1..Len(functions) |->
                                            Join(functions[i].name)]]>>),
             raised |-> None]

(***************************************************************************)
(* k3sgateway: types.py GatewayRoute and the HAProxy generators.  A route  *)
(* is [path, service, strip_prefix, rewrite_to, timeouts, rate_limit];     *)
(* path and service are sequences of characters.                           *)
(***************************************************************************)
RECURSIVE LStripSlash(_)
\* str.lstrip("/")
LStripSlash(cs) ==
    IF cs # <<>> /\ cs[1] = "/" THEN LStripSlash(Tail(cs)) ELSE cs

\* route.path.strip("/").replace("/", "-") or "root"
GatewayRouteName(route) ==
    LET stripped == RStripSlash(LStripSlash(route.path))
        replaced == [i \in 1..Len(stripped) |->
                        IF stripped[i] = "/" THEN "-" ELSE stripped[i]]
    IN IF replaced = <<>> THEN "root" ELSE Join(replaced)

RECURSIVE SplitDots(_, _)
\* str.split("."): cur is the part being read
SplitDots(cs, cur) ==
    IF cs = <<>> THEN <<cur>>
    ELSE IF Head(cs) = "." THEN <<cur>> \o SplitDots(Tail(cs), <<>>)
    ELSE SplitDots(Tail(cs), Append(cur, Head(cs)))

\* GatewayRoute.service_name
service_name(route) == Join(SplitDots(route.service, <<>>)[1])

\* GatewayRoute.service_namespace
service_namespace(route) ==
    LET parts == SplitDots(route.service, <<>>) IN
    IF Len(parts) > 1 THEN Join(parts[2]) ELSE "apps"

\* RateLimitConfig() and CorsConfig() with the dataclass defaults
DefaultGatewayRateLimit == [enabled |-> FALSE, requests_per_second |-> 100, burst |-> 200]
DefaultCors ==
    [enabled |-> TRUE, allow_origins |-> <<"*">>,
     allow_methods |-> <<"GET", "POST", "PUT", "DELETE", "OPTIONS">>,
     allow_headers |-> <<"*">>, expose_headers |-> <<>>, max_age |-> None]

\* the annotations k3sgateway generate_haproxy_ingress builds
GatewayAnnotations(route, gateway_config) ==
    LET rate_limit == IF IsSet(route.rate_limit) THEN route.rate_limit
                      ELSE IF gateway_config.rate_limit.enabled
                      THEN Some(gateway_config.rate_limit) ELSE None
        cors == gateway_config.cors
        routing_host == service_name(route) \o "." \o service_namespace(route)
        config_backend ==
            "http-request set-header Host " \o routing_host \o "\n" \o
            (IF route.strip_prefix
             THEN "http-request replace-path " \o Join(route.path) \o "(.*) "
                  \o (IF IsSet(route.rewrite_to) /\ Val(route.rewrite_to) # ""
                      THEN Val(route.rewrite_to) ELSE "/")
                  \o "\\1\n"
             ELSE "")
    IN <<<<"haproxy-ingress.github.io/timeout-connect", route.timeouts.connect>>,
         <<"haproxy-ingress.github.io/timeout-server", route.timeouts.server>>,
         <<"haproxy-ingress.github.io/timeout-client", route.timeouts.client>>,
         <<"haproxy-ingress.github.io/timeout-queue", route.timeouts.server>>,
         <<"haproxy-ingress.github.io/retry-on",
           "conn-failure,empty-response,response-timeout">>,
         <<"haproxy-ingress.github.io/retries", "3">>>>
       \o (IF IsSet(rate_limit)
           THEN <<<<"haproxy-ingress.github.io/limit-rps",
                    ToString(Val(rate_limit).requests_per_second)>>,
                  <<"haproxy-ingress.github.io/limit-connections",
                    ToString(Val(rate_limit).burst)>>>>
           ELSE <<>>)
       \o (IF cors.enabled
           THEN <<<<"haproxy-ingress.github.io/cors-enable", "true">>,
                  <<"haproxy-ingress.github.io/cors-allow-origin",
                    IF cors.allow_origins # <<>> THEN JoinWith(",", cors.allow_origins)
                    ELSE "*">>,
                  <<"haproxy-ingress.github.io/cors-allow-methods",
                    JoinWith(",", cors.allow_methods)>>,
                  <<"haproxy-ingress.github.io/cors-allow-headers",
                    JoinWith(",", cors.allow_headers)>>>>
                \o (IF cors.expose_headers # <<>>
                    THEN <<<<"haproxy-ingress.github.io/cors-expose-headers",
                             JoinWith(",", cors.expose_headers)>>>>
                    ELSE <<>>)
                \o (IF IsSet(cors.max_age) /\ Val(cors.max_age) # 0
                    THEN <<<<"haproxy-ingress.github.io/cors-max-age",
                             ToString(Val(cors.max_age))>>>>
                    ELSE <<>>)
           ELSE <<>>)
       \o <<<<"haproxy-ingress.github.io/config-backend", config_backend>>>>

\* k3sgateway generate_haproxy_ingress
gateway_generate_haproxy_ingress(route, gateway_config, domain, tls_enabled, tls_secret) ==
    LET route_name == GatewayRouteName(route) IN
    [apiVersion |-> "networking.k8s.io/v1", kind |-> "Ingress",
     metadata |-> [name |-> "gateway-" \o route_name, namespace |-> "haproxy-ingress",
                   labels |-> <<<<"k3sgateway.io/route", route_name>>,
                                <<"k3sgateway.io/component", "gateway">>>>,
                   annotations |-> GatewayAnnotations(route, gateway_config)],
     spec |-> [ingressClassName |-> "haproxy",
               rules |-> <<[host |-> IF IsSet(domain) /\ Val(domain) # "" THEN domain
                                     ELSE None,
                            paths |->
                                <<[path |-> Join(route.path), pathType |-> "Prefix",
                                   backend |-> [service |-> "keda-route-" \o route_name,
                                                port |-> 8080]]>>]>>,
               tls |-> IF tls_enabled /\ IsSet(tls_secret) /\ Val(tls_secret) # ""
                       THEN Some([secretName |-> Val(tls_secret),
                                  hosts |-> IF IsSet(domain) /\ Val(domain) # ""
                                            THEN <<Val(domain)>> ELSE <<>>])
                       ELSE None]]

\* k3sgateway generate_haproxy_route_service
gateway_generate_haproxy_route_service(route) ==
    LET route_name == GatewayRouteName(route) IN
    [apiVersion |-> "v1", kind |-> "Service",
     metadata |-> [name |-> "keda-route-" \o route_name, namespace |-> "haproxy-ingress",
                   labels |-> <<<<"k3sgateway.io/route", route_name>>,
                                <<"k3sgateway.io/component", "keda-route">>>>],
     spec |-> [type |-> Some("ExternalName"),
               externalName |->
                   Some("keda-add-ons-http-interceptor-proxy.keda.svc.cluster.local"),
               selector |-> None,
               ports |-> <<[name |-> "", port |-> 8080, targetPort |-> 8080,
                            protocol |-> "TCP"]>>]]

RECURSIVE GatewayHaproxyManifests(_, _, _, _, _)
\* the haproxy loop of k3sgateway generate_all_manifests over the routes
GatewayHaproxyManifests(routes, gateway_config, domain, tls_enabled, tls_secret) ==
    IF routes = <<>> THEN <<>>
    ELSE <<gateway_generate_haproxy_route_service(Head(routes)),
           gateway_generate_haproxy_ingress(Head(routes), gateway_config, domain,
                                            tls_enabled, tls_secret)>>
         \o GatewayHaproxyManifests(Tail(routes), gateway_config, domain,
                                    tls_enabled, tls_secret)

\* k3sgateway generate_all_manifests with ingress_type "haproxy": the
\* all_manifests list it writes to gateway-manifests.yaml
gateway_generate_all_manifests(gateway_config, domain, tls_enabled, tls_secret) ==
    GatewayHaproxyManifests(gateway_config.routes, gateway_config, domain,
                            tls_enabled, tls_secret)

(***************************************************************************)
(* generate-all: the whole manifest list of one entry and the batch loops *)
(* of the command lines.                                                   *)
(***************************************************************************)
\* the manifests k3scompose generate_all_manifests appends for one service:
\* the Deployment (with the service account's name when one is configured),
\* the Service and the NetworkPolicy; raises what generate_deployment raises
ComposeServiceManifests(service, project, c, e, registry) ==
    LET namespace == compose_get_effective_namespace(c, e)
        security == compose_get_effective_security(c, e)
        deploy == compose_generate_deployment(service, project, namespace, registry,
                                              c.overrides[e])
        named == IF IsSet(security.service_account)
                    /\ Val(security.service_account) # ""
                 THEN [Val(deploy.value) EXCEPT
                          !.spec.template.spec.serviceAccountName =
                              security.service_account]
                 ELSE Val(deploy.value)
        service_manifest == compose_generate_service(service, project, namespace)
        netpol == IF security.network_policy.enabled
                  THEN compose_generate_network_policy(service, c, e) ELSE None
    IN IF IsSet(deploy.raised) THEN deploy
       ELSE Return(<<named>> \o service_manifest \o netpol)

RECURSIVE ComposeServicesLoop(_, _, _, _, _, _)
\* the loop of k3scompose generate_all_manifests over project.services; the
\* first exception ends it
ComposeServicesLoop(services, project, c, e, registry, acc) ==
    IF services = <<>> THEN Return(acc)
    ELSE LET one == ComposeServiceManifests(Head(services), project, c, e, registry)
         IN IF IsSet(one.raised) THEN one
            ELSE ComposeServicesLoop(Tail(services), project, c, e, registry,
                                     acc \o Val(one.value))

\* k3scompose generate_all_manifests(project, config, env, registry) without
\* secret_refs, for projects without named volumes
compose_generate_all_manifests(project, c, e, registry) ==
    ComposeServicesLoop(project.services, project, c, e, registry,
                        compose_generate_service_account(c, e))

\* k3scompose cli output_manifests(manifests, format, output, project_name):
\* the file it writes
compose_output_manifests(files, manifest_list, format, project_name) ==
    DictSet(files, Join(project_name) \o "." \o format, manifest_list)

RECURSIVE ComposeGenerateAllLoop(_, _, _, _, _)
\* the loop of k3scompose cmd_generate_all over the enabled projects; out is
\* [files, printed, raised, code]. A project whose compose file is missing is
\* skipped with a warning; any other exception leaves the loop and the
\* command
ComposeGenerateAllLoop(todo, e, registry, format, out) ==
    IF todo = <<>>
    THEN [out EXCEPT !.printed = Append(@, "Generated manifests"), !.code = Some(0)]
    ELSE LET entry == Head(todo) IN
         IF ~IsSet(entry.project)
         THEN ComposeGenerateAllLoop(Tail(todo), e, registry, format,
                [out EXCEPT !.printed = Append(@, "Warning: Skipping "
                                                  \o Join(entry.config.name))])
         ELSE LET got == compose_generate_all_manifests(
                            Val(entry.project), entry.config, e, registry)
              IN IF IsSet(got.raised)
                 THEN [out EXCEPT !.raised = got.raised]
                 ELSE ComposeGenerateAllLoop(Tail(todo), e, registry, format,
                        [out EXCEPT
                            !.files = compose_output_manifests(
                                        @, Val(got.value), format, entry.config.name),
                            !.printed = Append(@, "Written: " \o Join(entry.config.name)
                                                  \o "." \o format)])

\* a command before it has written or printed anything
NoOutput == [files |-> <<>>, printed |-> <<>>, raised |-> None, code |-> None]

\* k3scompose cmd_generate_all: configs are the apps.yaml compose entries,
\* each with the ComposeProject its compose file parses to (None when the
\* file is missing)
compose_cmd_generate_all(configs, e, registry, format) ==
    LET on == SelectSeq(configs, LAMBDA x : is_enabled(x.config, e)) IN
    IF on = <<>>
    THEN [NoOutput EXCEPT !.printed = <<"No enabled compose projects">>,
                          !.code = Some(0)]
    ELSE ComposeGenerateAllLoop(on, e, registry, format, NoOutput)

\* k3sfn get_defaults_for_env, on the defaults block of apps.yaml
fn_get_defaults_for_env(d, e) ==
    [namespace |-> d.namespace,
     registry |-> DictGet(d.registry, e, ""),
     ingress |-> DictGet(d.ingress, e, "traefik")]

RECURSIVE FnGenerateAllLoop(_, _, _, _)
\* the loop of k3sfn generate-all over the enabled serverless entries: an
\* entry without path is skipped, an exception of generate_all_manifests is
\* printed and the loop goes on
FnGenerateAllLoop(todo, dflts, output, out) ==
    IF todo = <<>>
    THEN [out EXCEPT !.printed = Append(@, "Generated manifests in " \o output),
                     !.code = Some(0)]
    ELSE LET app_config == Head(todo)
             namespace == IF IsSet(app_config.namespace)
                             /\ Val(app_config.namespace) # ""
                          THEN Val(app_config.namespace) ELSE dflts.namespace
             got == fn_generate_all_manifests(
                        out.files, app_config.source, app_config.name,
                        output \o "/" \o Join(app_config.name), namespace,
                        dflts.registry, None, dflts.ingress)
         IN IF ~IsSet(app_config.path) \/ Val(app_config.path) = ""
            THEN FnGenerateAllLoop(Tail(todo), dflts, output,
                    [out EXCEPT !.printed = Append(@, "Skipping "
                                    \o Join(app_config.name) \o ": no path defined")])
            ELSE FnGenerateAllLoop(Tail(todo), dflts, output,
                    [out EXCEPT
                        !.files = got.files,
                        !.printed = IF IsSet(got.raised)
                                    THEN @ \o <<Join(app_config.name) \o ":",
                                                "Error: " \o Val(got.raised)>>
                                    ELSE Append(@, Join(app_config.name) \o ":")])

\* k3sfn generate-all: apps are the serverless entries of apps.yaml, each
\* with the functions found under its path (source)
fn_cmd_generate_all(apps, e, d, output) ==
    LET enabled_apps == get_enabled_serverless_apps(apps, e) IN
    IF enabled_apps = <<>>
    THEN [NoOutput EXCEPT !.printed = <<"No enabled serverless apps found">>,
                          !.code = Some(0)]
    ELSE FnGenerateAllLoop(enabled_apps, fn_get_defaults_for_env(d, e), output,
                           NoOutput)

\* k3sapp cli output_manifests(manifests, format, output, app_name): the
\* file it writes
app_output_manifests(files, manifest_list, format, app_name) ==
    DictSet(files, Join(app_name) \o "." \o format, manifest_list)

RECURSIVE AppGenerateAllLoop(_, _, _, _, _, _)
\* the loop of k3sapp cmd_generate_all over the enabled apps
AppGenerateAllLoop(todo, e, d, environ, format, out) ==
    IF todo = <<>>
    THEN [out EXCEPT !.printed = Append(@, "Generated manifests"), !.code = Some(0)]
    ELSE AppGenerateAllLoop(Tail(todo), e, d, environ, format,
            [out EXCEPT
                !.files = app_output_manifests(
                            @, generate_all_manifests(Head(todo), e, d, environ),
                            format, Head(todo).name),
                !.printed = Append(@, "Written: " \o Join(Head(todo).name)
                                      \o "." \o format)])

\* k3sapp cmd_generate_all
app_cmd_generate_all(apps, e, d, environ, format) ==
    LET on == get_enabled_apps(apps, e) IN
    IF on = <<>>
    THEN [NoOutput EXCEPT !.printed = <<"No enabled apps found">>, !.code = Some(0)]
    ELSE AppGenerateAllLoop(on, e, d, environ, format, NoOutput)

\* str.endswith(suffix)
EndsWith(cs, suffix) ==
    /\ Len(cs) >= Len(suffix)
    /\ SubSeq(cs, Len(cs) - Len(suffix) + 1, Len(cs)) = suffix

\* memory[:-1] followed by a suffix
ReplaceLast(cs, suffix) == SubSeq(cs, 1, Len(cs) - 1) \o suffix

\* str.lower()
LowerAll(cs) == [i \in 1..Len(cs) |-> Lower(cs[i])]

\* _convert_memory without memory.lower()
convert_memory_CaseSensitive(memory) ==
    IF memory = <<>> THEN <<"2", "5", "6", "M", "i">>
    ELSE IF EndsWith(memory, <<"M", "i">>) \/ EndsWith(memory, <<"G", "i">>)
            \/ EndsWith(memory, <<"K", "i">>)
    THEN memory
    ELSE IF EndsWith(memory, <<"g">>) THEN ReplaceLast(memory, <<"G", "i">>)
    ELSE IF EndsWith(memory, <<"m">>) THEN ReplaceLast(memory, <<"M", "i">>)
    ELSE IF EndsWith(memory, <<"k">>) THEN ReplaceLast(memory, <<"K", "i">>)
    ELSE memory

\* k3scompose _convert_memory
convert_memory(memory) ==
    IF memory = <<>> THEN <<"2", "5", "6", "M", "i">>
    ELSE IF EndsWith(memory, <<"M", "i">>) \/ EndsWith(memory, <<"G", "i">>)
            \/ EndsWith(memory, <<"K", "i">>)
    THEN memory
    ELSE IF EndsWith(LowerAll(memory), <<"g">>) THEN ReplaceLast(LowerAll(memory), <<"G", "i">>)
    ELSE IF EndsWith(LowerAll(memory), <<"m">>) THEN ReplaceLast(LowerAll(memory), <<"M", "i">>)
    ELSE IF EndsWith(LowerAll(memory), <<"k">>) THEN ReplaceLast(LowerAll(memory), <<"K", "i">>)
    ELSE LowerAll(memory)

(***************************************************************************)
(* k3scompose _convert_cpu: float(cpus), cores * 1000 and int() in IEEE 754 *)
(* binary64.  A double is [bits, exp]: bits are the 53 binary digits of its *)
(* significand, the most significant first, exp the power of two of the     *)
(* first digit; [bits |-> <<>>, exp |-> 0] is 0.0.  Significands and        *)
(* products are kept as binary digits and as limbs of 18 digits because     *)
(* they exceed the integers of the checker.                                 *)
(***************************************************************************)
SignificandBits == 53
\* a limb holds 18 binary digits
LimbBase == 2 ^ 18

\* the w binary digits of v < 2^w, the most significant first
DigitsOfWidth(v, w) == [i \in 1..w |-> (v \div (2 ^ (w - i))) % 2]

RECURSIVE BitsValue(_, _)
\* the number the binary digits denote, read after acc
BitsValue(bits, acc) ==
    IF bits = <<>> THEN acc ELSE BitsValue(Tail(bits), 2 * acc + Head(bits))

\* the 18 binary digits of the limb v
LimbDigits(v) == DigitsOfWidth(v, 18)

\* the next 18 binary digits of the fraction r/d (0 <= r < d), as a number,
\* and what is left of the fraction, times d
FractionLimb(r, d) == (r * LimbBase) \div d
FractionLeft(r, d) == (r * LimbBase) % d

\* the first 72 binary digits of the fraction r/d
FractionDigits(r, d) ==
    LET r1 == FractionLeft(r, d)
        r2 == FractionLeft(r1, d)
        r3 == FractionLeft(r2, d)
    IN LimbDigits(FractionLimb(r, d))
       \o LimbDigits(FractionLimb(r1, d))
       \o LimbDigits(FractionLimb(r2, d))
       \o LimbDigits(FractionLimb(r3, d))

\* whether r/d has binary digits beyond its first 72
FractionSticky(r, d) ==
    FractionLeft(FractionLeft(FractionLeft(FractionLeft(r, d), d), d), d) # 0

\* bits + 1 (one digit longer when all are 1)
Increment(bits) ==
    IF \A i \in 1..Len(bits) : bits[i] = 1
    THEN <<1>> \o [i \in 1..Len(bits) |-> 0]
    ELSE LET p == CHOOSE i \in 1..Len(bits) :
                    bits[i] = 0 /\ \A j \in (i + 1)..Len(bits) : bits[j] = 1
         IN [i \in 1..Len(bits) |-> IF i < p THEN bits[i] ELSE IF i = p THEN 1 ELSE 0]

\* round to nearest, ties to even: bits are the digits of an exact value,
\* the first of them 1 with the power of two exp; sticky says that the
\* digits beyond them are not all zero
RoundToDouble(bits, exp, sticky) ==
    IF Len(bits) <= SignificandBits
    THEN [bits |-> bits \o [i \in 1..(SignificandBits - Len(bits)) |-> 0], exp |-> exp]
    ELSE LET kept == SubSeq(bits, 1, SignificandBits)
             guard == bits[SignificandBits + 1]
             rest == sticky \/ \E i \in (SignificandBits + 2)..Len(bits) : bits[i] = 1
             up == guard = 1 /\ (rest \/ kept[SignificandBits] = 1)
             raised == Increment(kept)
         IN IF ~up THEN [bits |-> kept, exp |-> exp]
            ELSE IF Len(raised) > SignificandBits
            THEN [bits |-> SubSeq(raised, 1, SignificandBits), exp |-> exp + 1]
            ELSE [bits |-> raised, exp |-> exp]

\* the double nearest to the value of the digits, not all zero, the first of
\* which has the power of two top
NearestDouble(bits, top, sticky) ==
    LET first == CHOOSE i \in 1..Len(bits) :
                    bits[i] = 1 /\ \A j \in 1..(i - 1) : bits[j] = 0
    IN RoundToDouble(SubSeq(bits, first, Len(bits)), top - (first - 1), sticky)

\* float(text) for the decimal num/den (den a power of ten up to 1000)
DoubleOfRatio(num, den) ==
    IF num = 0 THEN [bits |-> <<>>, exp |-> 0]
    ELSE NearestDouble(DigitsOfWidth(num \div den, 31) \o FractionDigits(num % den, den),
                       30, FractionSticky(num % den, den))

\* x * n for a double x and an int 0 < n < 8192: the exact product of the
\* significand, limb by limb, then rounded
DoubleTimesInt(x, n) ==
    IF x.bits = <<>> THEN x
    ELSE LET low == BitsValue(SubSeq(x.bits, 36, 53), 0) * n
             mid == BitsValue(SubSeq(x.bits, 18, 35), 0) * n + low \div LimbBase
             high == BitsValue(SubSeq(x.bits, 1, 17), 0) * n + mid \div LimbBase
         IN NearestDouble(DigitsOfWidth(high, 31)
                            \o LimbDigits(mid % LimbBase)
                            \o LimbDigits(low % LimbBase),
                          x.exp + 14, FALSE)

\* int(x) for a double 0 <= x < 2^31: the digits before the binary point
IntOfDouble(x) ==
    IF x.bits = <<>> \/ x.exp < 0 THEN 0
    ELSE BitsValue(SubSeq(x.bits, 1, x.exp + 1), 0)

\* float(cpus) for an unsigned decimal without exponent (digits, at most one
\* ".", at least one digit, at most three digits after the "."): None stands
\* for the ValueError of float
ParseFloat(cs) ==
    LET parts == SplitOn(cs, ".", <<>>) IN
    IF Len(parts) > 2 \/ \E i \in 1..Len(cs) : cs[i] \notin Digits \cup {"."}
    THEN None
    ELSE IF Len(parts) = 1
    THEN (IF cs = <<>> THEN None ELSE Some(DoubleOfRatio(DigitsValue(cs, 0), 1)))
    ELSE IF parts[1] = <<>> /\ parts[2] = <<>> THEN None
    ELSE Some(DoubleOfRatio(DigitsValue(parts[1] \o parts[2], 0), 10 ^ Len(parts[2])))

\* k3scompose _convert_cpu
convert_cpu(cpus) ==
    IF cpus = <<>> THEN <<"1", "0", "0", "m">>
    ELSE IF EndsWith(cpus, <<"m">>) THEN cpus
    ELSE IF ~IsSet(ParseFloat(cpus)) THEN cpus
    ELSE Append(DecimalOf(IntOfDouble(DoubleTimesInt(Val(ParseFloat(cpus)), 1000))), "m")

(***************************************************************************)
(* k3sfn/decorators.py.  func._k3sfn_metadata is an Optional dict (None:   *)
(* the function has no such attribute); functools.wraps hands the same     *)
(* dict and the same __name__ on to the wrapper a decorator returns, so a  *)
(* stack of decorators works on one dict.  _registry maps function names   *)
(* to FunctionMetadata records; handler, module, environment, secrets and  *)
(* labels are left out of the records.                                     *)
(***************************************************************************)
\* types.py ResourceSpec with __post_init__: a limit left out is the request
ResourceSpec(memory, cpu, memory_limit, cpu_limit) ==
    [memory |-> memory, cpu |-> cpu,
     memory_limit |-> IF IsSet(memory_limit) THEN Val(memory_limit) ELSE memory,
     cpu_limit |-> IF IsSet(cpu_limit) THEN Val(cpu_limit) ELSE cpu]

\* types.py ScalingSpec(min_instances, max_instances)
ScalingSpec(min_instances, max_instances) ==
    [min_instances |-> min_instances, max_instances |-> max_instances,
     target_pending_requests |-> 100, cooldown_period |-> 300]

\* the dict a decorator works on: the attribute, or a new empty dict
MetadataOf(meta) == IF IsSet(meta) THEN Val(meta) ELSE <<>>

\* serverless(...).decorator: access_rules
ServerlessAccessRules(p) ==
    IF p.visibility = "restricted"
       /\ (   (IsSet(p.allow_from_namespaces) /\ Val(p.allow_from_namespaces) # <<>>)
           \/ (IsSet(p.allow_from_pods) /\ Val(p.allow_from_pods) # <<>>))
    THEN Some([namespaces |-> IF IsSet(p.allow_from_namespaces)
                              THEN Val(p.allow_from_namespaces) ELSE <<>>,
               pod_labels |-> IF IsSet(p.allow_from_pods)
                              THEN Val(p.allow_from_pods) ELSE <<>>])
    ELSE None

\* serverless(...).decorator: the keys it sets in func._k3sfn_metadata
serverless_metadata(meta, p, name) ==
    DictSet(DictSet(DictSet(DictSet(DictSet(DictSet(MetadataOf(meta),
        "resources", ResourceSpec(p.memory, p.cpu, p.memory_limit, p.cpu_limit)),
        "scaling", ScalingSpec(p.min_instances, p.max_instances)),
        "timeout", p.timeout),
        "name", name),
        "visibility", p.visibility),
        "access_rules", ServerlessAccessRules(p))

\* http_trigger(...).decorator
http_trigger(meta, t) ==
    DictSet(DictSet(MetadataOf(meta), "trigger_type", "http"),
            "http_trigger",
            [path |-> t.path,
             methods |-> IF IsSet(t.methods) /\ Val(t.methods) # <<>>
                         THEN Val(t.methods) ELSE <<"GET", "POST">>,
             auth |-> None, cors |-> TRUE, rate_limit |-> None])

\* queue_trigger(...).decorator
queue_trigger(meta, t) ==
    DictSet(DictSet(MetadataOf(meta), "trigger_type", "queue"),
            "queue_trigger",
            [queue_name |-> t.queue_name, batch_size |-> t.batch_size,
             visibility_timeout |-> 30])

\* schedule_trigger(...).decorator
schedule_trigger(meta, t) ==
    DictSet(DictSet(MetadataOf(meta), "trigger_type", "schedule"),
            "schedule_trigger", [cron |-> t.cron, timezone |-> t.timezone])

\* meta.get(key) of an Optional value
MetaGet(m, k) == IF DictHas(m, k) THEN Some(DictGet(m, k, None)) ELSE None

\* _finalize_registration: the FunctionMetadata built from the dict as it is
\* at this moment
finalize_registration(meta, name) ==
    [name |-> DictGet(MetadataOf(meta), "name", name),
     trigger_type |-> DictGet(MetadataOf(meta), "trigger_type", "http"),
     resources |-> DictGet(MetadataOf(meta), "resources", ResourceSpec("256Mi", "100m", None, None)),
     scaling |-> DictGet(MetadataOf(meta), "scaling", ScalingSpec(0, 10)),
     http_trigger |-> MetaGet(MetadataOf(meta), "http_trigger"),
     queue_trigger |-> MetaGet(MetadataOf(meta), "queue_trigger"),
     schedule_trigger |-> MetaGet(MetadataOf(meta), "schedule_trigger"),
     timeout |-> DictGet(MetadataOf(meta), "timeout", 30),
     visibility |-> DictGet(MetadataOf(meta), "visibility", "private"),
     access_rules |-> DictGet(MetadataOf(meta), "access_rules", None)]

\* FunctionRegistry.register
FunctionRegistry_register(registry, metadata) == DictSet(registry, metadata.name, metadata)

\* FunctionRegistry.get
FunctionRegistry_get(registry, name) == MetaGet(registry, name)

(***************************************************************************)
(* Explored inputs.                                                        *)
(***************************************************************************)
\* sequences over S of length 0..n
SeqsUpTo(S, n) == UNION {[1..k -> S] : k \in 0..n}

ScalingInputs ==
    {[DefaultScaling EXCEPT !.type = t, !.min_instances = m, !.queue_name = q] :
        t \in ScalingTypes, m \in 0..MaxMinInstances, q \in {None}}
    \cup {[DefaultScaling EXCEPT !.type = "keda-queue", !.min_instances = m,
                                 !.queue_name = Some("jobs")] : m \in 0..MaxMinInstances}

OverrideInputs ==
    {None} \cup
    {Some([DefaultOverride EXCEPT !.replicas = r, !.scaling = sc]) :
        r \in {None} \cup {Some(n) : n \in 0..MaxReplicas},
        sc \in {None, Some([DefaultScaling EXCEPT !.type = "none"]),
                Some([DefaultScaling EXCEPT !.type = "hpa", !.min_instances = 1])}}

IngressInputs ==
    {DefaultIngress,
     [DefaultIngress EXCEPT !.enabled = TRUE, !.path = <<"/", "a", "p", "i">>]}

DefaultsInputs ==
    {[namespace |-> "apps", registry |-> <<>>, ingress |-> <<>>],
     [namespace |-> "apps",
      registry |-> <<<<"gcp", "us-docker.pkg.dev/proj/repo">>>>,
      ingress |-> <<<<"dev", "traefik">>, <<"gcp", "haproxy">>>>]}

\* apps that vary scaling, the override block of one environment and ingress
ScalingApps ==
    {[DefaultApp EXCEPT !.scaling = sc, !.ingress = ing,
                        !.overrides = [e \in Environments |->
                                          IF e = at THEN o ELSE None]] :
        sc \in ScalingInputs, ing \in IngressInputs, o \in OverrideInputs,
        at \in {"local", "gcp"}}

RuleInputs ==
    {NetworkPolicyRule(Some("monitoring"), {}, None),
     NetworkPolicyRule(None, {<<"role", "client">>}, None),
     NetworkPolicyRule(None, {}, Some("10.0.0.0/8")),
     NetworkPolicyRule(None, {}, None)}

\* apps that vary the security configuration
SecurityApps ==
    {[DefaultApp EXCEPT !.ports = ports, !.security =
        [DefaultSecurity EXCEPT !.visibility = v,
            !.network_policy = [enabled |-> en, allow_from |-> af, allow_to |-> at]]] :
        ports \in {<<>>, <<[DefaultPort EXCEPT !.container_port = 3000]>>},
        v \in AppVisibilities, en \in BOOLEAN,
        af \in SeqsUpTo(RuleInputs, MaxRules), at \in SeqsUpTo(RuleInputs, MaxRules)}

EnvironmentInputs ==
    {<<>>,
     <<<<"LOG_LEVEL", Literal(<<Text("info")>>)>>>>,
     <<<<"HOME_DIR", Literal(<<Text("home="), VarRef("HOME", "/root")>>)>>>>,
     <<<<"DB_PASSWORD", SecretRef("db-password", "gcp")>>>>,
     <<<<"AWS_KEY", SecretRef("aws-key", "aws")>>>>,
     <<<<"VAULT_TOKEN", SecretRef("token", "vault")>>,
       <<"AZ_KEY", SecretRef("az-key", "azure")>>>>,
     <<<<"LOG_LEVEL", Literal(<<Text("info")>>)>>,
       <<"DB_PASSWORD", SecretRef("db-password", "gcp")>>,
       <<"AWS_KEY", SecretRef("aws-key", "aws")>>,
       <<"API_KEY", SecretRef("api-key", "gcp")>>>>}

\* apps that vary the environment map, with and without an override that
\* replaces the secret DB_PASSWORD by a literal
SecretApps ==
    {[DefaultApp EXCEPT !.environment = em,
                        !.scaling = [DefaultScaling EXCEPT !.type = t],
                        !.overrides = [e \in Environments |->
                                          IF e = "dev" THEN o ELSE None]] :
        em \in EnvironmentInputs, t \in {"keda-http", "none"},
        o \in {None,
               Some([DefaultOverride EXCEPT
                        !.environment = <<<<"DB_PASSWORD", <<Text("dev")>>>>>>])}}

EnvironInputs == {<<>>, <<<<"HOME", "/home/u">>>>}

AccessRuleInputs ==
    {None} \cup
    {Some([namespaces |-> ns, pod_labels |-> pl, service_accounts |-> sa]) :
        ns \in SeqsUpTo({"monitoring", "gateway"}, MaxRules),
        pl \in {{}, {<<"role", "client">>}},
        sa \in {<<>>, <<"runner">>}}

\* FunctionMetadata, for the fields generate_network_policy reads
FuncInputs ==
    {[name |-> <<"g", "e", "t", "_", "U", "s", "e", "r">>, trigger_type |-> tt,
      visibility |-> v, access_rules |-> ar] :
        tt \in TriggerTypes, v \in FnVisibilities, ar \in AccessRuleInputs}

DefaultFunc ==
    [name |-> <<"f">>, trigger_type |-> "http", visibility |-> "private",
     access_rules |-> None]

ComposeSecurityInputs ==
    {[DefaultSecurity EXCEPT
        !.network_policy = [enabled |-> en, allow_from |-> <<>>, allow_to |-> at]] :
        en \in BOOLEAN, at \in SeqsUpTo(RuleInputs, MaxRules)}

\* a compose service with the ComposeConfig of its project
ComposeInputs ==
    {[service |-> [name |-> <<"W", "e", "b", "_", "1">>, ports |-> ports],
      config |-> [name |-> <<"s", "h", "o", "p">>, namespace |-> "apps",
                  enabled |-> TRUE, security |-> base,
                  overrides |-> [e \in Environments |->
                      Some([namespace |-> "apps", enabled |-> TRUE, replicas |-> None,
                            security |-> IF e = "gcp" THEN ov ELSE None,
                            environment |-> <<>>])]]] :
        ports \in {<<>>, <<[host_port |-> Some(8080), container_port |-> 3000,
                           protocol |-> "TCP"]>>},
        base \in ComposeSecurityInputs,
        ov \in {None,
                Some([DefaultSecurity EXCEPT !.network_policy =
                        [enabled |-> TRUE, allow_from |-> <<>>,
                         allow_to |-> <<NetworkPolicyRule(Some("db"), {}, None)>>]])}}

DefaultCompose ==
    [service |-> [name |-> <<"w">>, ports |-> <<>>],
     config |-> [name |-> <<"p">>, namespace |-> "apps", enabled |-> TRUE,
                 security |-> DefaultSecurity,
                 overrides |-> [e \in Environments |-> None]]]

BlockInputs ==
    {Some([EmptyBlock EXCEPT !.enabled = en]) :
        en \in {None, Some(TRUE), Some(FALSE)}}
    \cup {Some([EmptyBlock EXCEPT !.replicas = Some(1)])}

\* raw apps.yaml entries: a global enabled flag and at most one override block
EntryInputs ==
    {[name |-> <<"a", "p", "p">>, namespace |-> None, enabled |-> g,
      resources |-> None, scaling |-> None,
      blocks |-> [e \in Environments |-> IF e = at THEN b ELSE None]] :
        g \in {None, Some(TRUE), Some(FALSE)}, at \in {"local", "gcp"},
        b \in {None} \cup BlockInputs}

\* entry i of an apps.yaml list gets the name app<i>
Numbered(s) ==
    [i \in 1..Len(s) |->
        [s[i] EXCEPT !.name = <<"a", "p", "p">> \o <<CHOOSE d \in Digits : d = ToString(i)>>]]

\* raw scaling dicts: absent, {}, and dicts that set some of the keys
ScalingDictInputs ==
    LET empty == [type |-> None, min_instances |-> None, max_instances |-> None] IN
    {None, Some(empty), Some([empty EXCEPT !.type = Some("none")]),
     Some([empty EXCEPT !.type = Some("hpa"), !.min_instances = Some(1)])}
    \cup {Some([empty EXCEPT !.min_instances = Some(m), !.max_instances = Some(5)]) :
             m \in 1..MaxMinInstances}

\* raw resources dicts: absent, {}, and dicts that set some of the keys
ResourcesDictInputs ==
    LET empty == [memory |-> None, cpu |-> None, memory_limit |-> None,
                  cpu_limit |-> None] IN
    {None, Some(empty), Some([empty EXCEPT !.memory = Some("512Mi")]),
     Some([empty EXCEPT !.cpu = Some("500m"), !.cpu_limit = Some("1")]),
     Some([empty EXCEPT !.memory = Some("1Gi"), !.memory_limit = Some("2Gi")])}

\* raw apps.yaml app entries with base scaling / resources and a local block
\* that may set either
RawAppInputs ==
    {[name |-> <<"a", "p", "p">>, namespace |-> None, enabled |-> None,
      resources |-> r, scaling |-> sc,
      blocks |-> [e \in Environments |-> IF e = "local" THEN b ELSE None]] :
        r \in ResourcesDictInputs, sc \in ScalingDictInputs,
        b \in {None} \cup {Some([EmptyBlock EXCEPT !.scaling = osc, !.resources = ores]) :
                              osc \in ScalingDictInputs, ores \in ResourcesDictInputs}}

\* the environment dict of an override block (plain strings)
OverrideEnvironmentInputs ==
    {<<>>,
     <<<<"DB_PASSWORD", <<Text("dev")>>>>>>,
     <<<<"LOG_LEVEL", <<Text("debug")>>>>, <<"EXTRA", <<Text("1")>>>>>>}

\* apps that vary the base environment map and the environment of the dev block
EnvironmentApps ==
    {[DefaultApp EXCEPT !.environment = em,
                        !.overrides = [e \in Environments |->
                                          IF e = "dev" THEN o ELSE None]] :
        em \in EnvironmentInputs,
        o \in {None} \cup {Some([DefaultOverride EXCEPT !.environment = oe]) :
                              oe \in OverrideEnvironmentInputs}}

\* raw apps.yaml compose entries with or without a namespace and a local block
\* that may set one
RawComposeInputs ==
    {[name |-> <<"s", "h", "o", "p">>, namespace |-> ns, enabled |-> None,
      resources |-> None, scaling |-> None,
      blocks |-> [e \in Environments |-> IF e = "local" THEN b ELSE None]] :
        ns \in {None, Some("shop")},
        b \in {None, Some(EmptyBlock),
               Some([EmptyBlock EXCEPT !.namespace = Some("staging")]),
               Some([EmptyBlock EXCEPT !.enabled = Some(TRUE)]),
               Some([EmptyBlock EXCEPT !.replicas = Some(2)])}}

\* a ComposeOverrides that sets nothing but replicas
ReplicasOverride(r) ==
    [namespace |-> "apps", enabled |-> TRUE, replicas |-> r, security |-> None,
     environment |-> <<>>]

\* compose services (image, build context or neither; with or without a
\* deploy block and its replicas key) with the arguments of generate_deployment
ComposeDeploymentInputs ==
    {[service |-> [name |-> <<"W", "e", "b", "_", "1">>,
                   image |-> im, build |-> bu,
                   deploy |-> DeployConfig_from_dict(dp),
                   environment |-> <<<<"MODE", "prod">>>>,
                   ports |-> <<>>, healthcheck |-> None, volumes |-> <<>>],
      project |-> [name |-> <<"s", "h", "o", "p">>],
      namespace |-> "apps",
      registry |-> rg,
      overrides |-> ov] :
        im \in {None, Some("nginx:1.25")}, bu \in BOOLEAN,
        dp \in {None, Some(None)} \cup {Some(Some(r)) : r \in 1..MaxReplicas},
        rg \in {None, Some("reg.local")},
        ov \in {None} \cup {Some(ReplicasOverride(r)) :
                    r \in {None} \cup {Some(n) : n \in 0..MaxReplicas}}}

\* the name of entry i of a generate-all batch
BatchName(i) == <<"p", CHOOSE d \in Digits : d = ToString(i)>>

\* a compose service of a batch: with an image, or with neither image nor
\* build context
BatchService(image) ==
    [name |-> <<"w", "e", "b">>, image |-> image, build |-> FALSE,
     deploy |-> DeployConfig_from_dict(None), environment |-> <<>>,
     ports |-> <<[host_port |-> None, container_port |-> 80, protocol |-> "TCP"]>>,
     healthcheck |-> None, volumes |-> <<>>]

\* the compose entries of a batch: an enabled project that generates, one
\* with a service that has neither image nor build, one whose compose file is
\* missing, and a disabled one
ComposeBatchKinds == {"good", "noimage", "nofile", "disabled"}

ComposeBatchEntry(kind, i) ==
    [config |-> ComposeConfig_from_dict(
                    [name |-> BatchName(i), namespace |-> None,
                     enabled |-> IF kind = "disabled" THEN Some(FALSE) ELSE None,
                     resources |-> None, scaling |-> None,
                     blocks |-> [e \in Environments |-> None]]),
     project |-> IF kind = "nofile" THEN None
                 ELSE Some([name |-> BatchName(i),
                            services |-> <<BatchService(IF kind = "noimage" THEN None
                                                        ELSE Some("nginx:1.25"))>>])]

ComposeBatchInputs ==
    {[i \in 1..Len(s) |-> ComposeBatchEntry(s[i], i)] :
        s \in SeqsUpTo(ComposeBatchKinds, MaxBatch)}

\* a public HTTP function, with or without the http_trigger decorator
BatchFunction(path) ==
    [name |-> <<"g", "e", "t", "_", "U", "s", "e", "r">>, trigger_type |-> "http",
     visibility |-> "public", access_rules |-> None, http_trigger |-> path]

\* the serverless entries of a batch: an app that generates, one without
\* path, one whose functions directory is missing, one whose public function
\* has no http_trigger, and a disabled one
FnBatchKinds == {"good", "nopath", "nodir", "notrigger", "disabled"}

FnBatchEntry(kind, i) ==
    [name |-> BatchName(i), namespace |-> None,
     enabled |-> IF kind = "disabled" THEN Some(FALSE) ELSE None,
     resources |-> None, scaling |-> None,
     blocks |-> [e \in Environments |-> None],
     path |-> IF kind = "nopath" THEN None ELSE Some("apps/fn"),
     source |-> IF kind = "nodir" THEN None
                ELSE Some(<<BatchFunction(IF kind = "notrigger" THEN None
                                          ELSE Some("/users"))>>)]

FnBatchInputs ==
    {[i \in 1..Len(s) |-> FnBatchEntry(s[i], i)] : s \in SeqsUpTo(FnBatchKinds, MaxBatch)}

\* the apps of a batch: the default app, one with ingress and a disabled one
AppBatchKinds == {"plain", "ingress", "disabled"}

AppBatchEntry(kind, i) ==
    [DefaultApp EXCEPT !.name = BatchName(i),
                       !.enabled = (kind # "disabled"),
                       !.ingress.enabled = (kind = "ingress")]

AppBatchInputs ==
    {[i \in 1..Len(s) |-> AppBatchEntry(s[i], i)] : s \in SeqsUpTo(AppBatchKinds, MaxBatch)}

\* the functions of a serverless app: function i is named get_U<i>; HTTP
\* functions with or without the http_trigger decorator, queue and schedule
\* functions, public or private
FunctionKinds ==
    {[trigger_type |-> "http", visibility |-> v, http_trigger |-> h] :
        v \in {"public", "private"}, h \in {None, Some("/users")}}
    \cup {[trigger_type |-> t, visibility |-> v, http_trigger |-> None] :
            t \in {"queue", "schedule"}, v \in {"public", "private"}}

DiscoveredFunction(kind, i) ==
    [name |-> <<"g", "e", "t", "_", "U", CHOOSE d \in Digits : d = ToString(i)>>,
     trigger_type |-> kind.trigger_type, visibility |-> kind.visibility,
     access_rules |-> None, http_trigger |-> kind.http_trigger]

FnGenerateInputs ==
    {[functions |-> [i \in 1..Len(s) |-> DiscoveredFunction(s[i], i)],
      app_name |-> <<"M", "y", "_", "F", "n">>, namespace |-> "apps",
      registry |-> "", host |-> None, ingress_type |-> it] :
        s \in SeqsUpTo(FunctionKinds, MaxFunctions), it \in {"haproxy", "traefik"}}

\* gateway routes: paths (two of which differ only in "/" against "-") to
\* services with or without a namespace, with or without strip_prefix
GatewayRouteInputs ==
    {[path |-> p, service |-> sv, strip_prefix |-> sp, rewrite_to |-> None,
      timeouts |-> [connect |-> "10s", server |-> "180s", client |-> "180s"],
      rate_limit |-> None] :
        p \in {<<"/", "a", "/", "u">>, <<"/", "a", "-", "u">>, <<"/">>},
        sv \in {<<"u", "s", "r", ".", "p", "r", "o", "d">>, <<"w", "e", "b">>},
        sp \in BOOLEAN}

GatewayInputs ==
    {[routes |-> rs, rate_limit |-> DefaultGatewayRateLimit, cors |-> DefaultCors] :
        rs \in SeqsUpTo(GatewayRouteInputs, MaxRoutes)}

\* apps with ingress disabled or enabled, with and without strip_prefix
IngressApps ==
    {[DefaultApp EXCEPT !.ingress = ing] : ing \in IngressInputs}
    \cup {[DefaultApp EXCEPT !.ingress.enabled = en, !.ingress.strip_prefix = TRUE,
                             !.ingress.path = <<"/", "v", "1", "/">>] :
            en \in BOOLEAN}

\* the length Kubernetes allows a resource name
K8sNameLimit == 63

\* names given to _to_k8s_name: every string of up to MaxNameLen characters
\* over a lower-case and an upper-case letter, a digit and "_", "-", ".",
\* and names around the length limit, one of them with a "-" at the limit
NameChars == {"a", "B", "7", "_", "-", "."}

NameInputs ==
    SeqsUpTo(NameChars, MaxNameLen)
    \cup {[i \in 1..n |-> "a"] : n \in K8sNameLimit..(K8sNameLimit + MaxNameLen)}
    \cup {[i \in 1..(K8sNameLimit + 1) |-> IF i = K8sNameLimit THEN "_" ELSE "a"]}

\* raw apps.yaml app entries that set resources, in the base and in the
\* local block (resource quantities are non-empty strings)
RawResourceInputs ==
    {r \in RawAppInputs :
        /\ r.scaling = None
        /\ r.blocks["local"] # None => Val(r.blocks["local"]).scaling = None}

\* the compose projects generated twice: one that generates and one whose
\* service has neither image nor build
RegenerateProjects == {ComposeBatchEntry(kind, 1) : kind \in {"good", "noimage"}}

\* the ports, addresses and protocols port entries are made of
PortNumbers == {53, 80, 8080}
PortAddresses == {<<"1", "2", "7", ".", "0", ".", "0", ".", "1">>, <<"0", ".", "0", ".", "0", ".", "0">>}
PortProtocols == {<<"t", "c", "p">>, <<"u", "d", "p">>, <<"U", "D", "P">>, <<"s", "c", "t", "p">>}

PortText(p) == [int |-> None, str |-> p]

\* docker-compose port entries: the five short forms, with and without a
\* protocol, and entries that are none of them
PortSpecInputs ==
    {[int |-> Some(p), str |-> <<>>] : p \in PortNumbers}
    \cup {PortText(DecimalOf(c)) : c \in PortNumbers}
    \cup {PortText(DecimalOf(h) \o <<":">> \o DecimalOf(c)) : h, c \in PortNumbers}
    \cup {PortText(DecimalOf(h) \o <<":">> \o DecimalOf(c) \o <<"/">> \o pr) :
            h, c \in PortNumbers, pr \in PortProtocols}
    \cup {PortText(DecimalOf(c) \o <<"/">> \o pr) : c \in PortNumbers, pr \in PortProtocols}
    \cup {PortText(ip \o <<":">> \o DecimalOf(h) \o <<":">> \o DecimalOf(c)) :
            ip \in PortAddresses, h, c \in PortNumbers}
    \cup {PortText(ip \o <<":">> \o DecimalOf(h) \o <<":">> \o DecimalOf(c) \o <<"/">> \o pr) :
            ip \in PortAddresses, h, c \in {53, 80}, pr \in PortProtocols}
    \cup {PortText(<<"8", "0", ":">>), PortText(<<"w", "e", "b">>),
          PortText(<<"1", ":", "2", ":", "3", ":", "4">>),
          PortText(<<"1", ".", "2", ":", ":", "8", "0">>)}

\* compose durations: the empty string, N, Ns, Nm, Nh, and durations of two
\* units such as 1m30s
DurationNumbers == {0, 5, 30, 90}

DurationInputs ==
    {<<>>}
    \cup {DecimalOf(n) : n \in DurationNumbers}
    \cup {Append(DecimalOf(n), u) : n \in DurationNumbers, u \in {"s", "m", "h"}}
    \cup {Append(DecimalOf(a), us[1]) \o Append(DecimalOf(b), us[2]) :
            a \in {1, 5}, b \in {5, 30},
            us \in {<<"h", "m">>, <<"m", "s">>, <<"h", "s">>}}

\* HealthCheck(test) with the dataclass defaults
DefaultHealthCheck(test) ==
    [test |-> test, interval |-> <<"3", "0", "s">>, timeout |-> <<"3", "0", "s">>,
     retries |-> 3, start_period |-> <<"0", "s">>]

\* healthcheck test arrays: none, NONE, CMD with and without arguments,
\* CMD-SHELL with one and with two more elements, a bare command
HealthTestInputs ==
    {<<>>, <<"NONE">>, <<"CMD">>, <<"CMD", "curl", "-f", "http://localhost/">>,
     <<"CMD-SHELL", "curl -f http://localhost/ || exit 1">>,
     <<"CMD-SHELL", "pg_isready", "-q">>, <<"curl", "localhost">>}

HealthCheckInputs ==
    {None}
    \cup {Some([DefaultHealthCheck(t) EXCEPT !.interval = iv, !.start_period = sp]) :
            t \in HealthTestInputs,
            iv \in {<<"3", "0", "s">>, <<"1", "m">>, <<>>},
            sp \in {<<"0", "s">>, <<"4", "0", "s">>}}

\* a service with an image and a healthcheck, with the arguments of
\* generate_deployment
ComposeProbeInputs ==
    {[service |-> [name |-> <<"d", "b">>, image |-> Some("postgres:16"),
                   build |-> FALSE, deploy |-> DeployConfig_from_dict(None),
                   environment |-> <<>>, ports |-> <<>>, healthcheck |-> hc,
                   volumes |-> <<>>],
      project |-> [name |-> <<"s", "h", "o", "p">>],
      namespace |-> "apps", registry |-> None, overrides |-> None] :
        hc \in HealthCheckInputs}

\* memory quantities: a number, followed by a docker suffix in either case, a
\* Kubernetes suffix, another suffix or none; and the empty string
MemoryNumbers == {<<"1">>, <<"5", "1", "2">>, <<"1", ".", "5">>}
DockerSuffixes == {"g", "m", "k", "G", "M", "K"}
KubernetesSuffixes == {<<"G", "i">>, <<"M", "i">>, <<"K", "i">>}

MemoryInputs ==
    {<<>>}
    \cup MemoryNumbers
    \cup {Append(n, d) : n \in MemoryNumbers, d \in DockerSuffixes}
    \cup {n \o k : n \in MemoryNumbers, k \in KubernetesSuffixes}
    \cup {n \o x : n \in MemoryNumbers,
                   x \in {<<"b">>, <<"G", "B">>, <<"m", "b">>, <<"K", "I">>, <<"E", "i">>}}

\* cpu quantities: decimals of up to three fractional digits, millicpu
\* strings, the empty string and a string that is no number
CpuWholes == {<<"0">>, <<"1">>, <<"2">>}
CpuFractions == {<<"5">>, <<"0">>, <<"0", "1">>, <<"2", "5">>, <<"0", "0", "1">>,
                 <<"1", "2", "5">>, <<"9", "9", "9">>}

CpuInputs ==
    {<<>>, <<"5", "0", "0", "m">>, <<"1", "m">>, <<"t", "w", "o">>, <<"1", ".", "2", ".", "3">>}
    \cup CpuWholes
    \cup {w \o <<".">> \o f : w \in CpuWholes, f \in CpuFractions}

\* the keyword arguments of serverless
ServerlessInputs ==
    {[memory |-> m, cpu |-> "100m", memory_limit |-> None, cpu_limit |-> None,
      min_instances |-> mi, max_instances |-> 10, timeout |-> 30, visibility |-> v,
      allow_from_namespaces |-> ns, allow_from_pods |-> None] :
        m \in {"256Mi", "1Gi"}, mi \in 0..1, v \in FnVisibilities,
        ns \in {None, Some(<<"apps">>)}}

\* a trigger decorator with its keyword arguments
TriggerInputs ==
    {[kind |-> "http", path |-> p, methods |-> ms] :
        p \in {"/", "/api/hello"}, ms \in {None, Some(<<"GET">>)}}
    \cup {[kind |-> "queue", queue_name |-> "tasks", batch_size |-> b] : b \in {1, 5}}
    \cup {[kind |-> "schedule", cron |-> "0 0 * * *", timezone |-> "UTC"]}

\* a function definition under two decorators; stack lists them in the order
\* Python applies them, the one next to the def first
DecoratedInputs ==
    {[name |-> "hello", stack |-> st, trigger |-> t, serverless |-> s] :
        st \in {<<"trigger", "serverless">>, <<"serverless", "trigger">>},
        t \in TriggerInputs, s \in ServerlessInputs}

\* the longest list of volumes of a service
MaxVolumes == 2

\* volume entries of a compose service: named volumes, bind mounts (absolute,
\* relative, the project directory itself), a read-only bind mount, and the
\* long form for a tmpfs and an anonymous volume
VolumeSpecInputs ==
    {[form |-> "str", text |-> t] :
        t \in {<<"d", "b", ":", "/", "d">>,
               <<"d", "b", ":", "/", "e">>,
               <<".", "/", "s", ":", "/", "a">>,
               <<"/", "s", ":", "/", "b", ":", "r", "o">>,
               <<".", ":", "/", "a">>,
               <<".", "/", ":", "/", "a">>}}
    \cup {[form |-> "dict", source |-> None, target |-> <<"/", "t">>,
           read_only |-> None, type |-> Some(ty)] : ty \in {"tmpfs", "volume"}}

\* a service with an image and volumes, with the arguments of
\* generate_deployment
ComposeVolumeInputs ==
    {[service |-> [name |-> <<"d", "b">>, image |-> Some("postgres:16"),
                   build |-> FALSE, deploy |-> DeployConfig_from_dict(None),
                   environment |-> <<>>, ports |-> <<>>, healthcheck |-> None,
                   volumes |-> [i \in 1..Len(vs) |-> VolumeMount_parse(vs[i])]],
      project |-> [name |-> <<"s", "h", "o", "p">>],
      namespace |-> "apps", registry |-> None, overrides |-> None] :
        vs \in SeqsUpTo(VolumeSpecInputs, MaxVolumes)}

(***************************************************************************)
(* The runs.  A run is one call of one tool: Init loads the inputs, one    *)
(* action performs the call and stores what it returns.                    *)
(***************************************************************************)
NoDefaults == [namespace |-> "apps", registry |-> <<>>, ingress |-> <<>>]

\* k3sapp generate <app> -e <env>
InitAppGenerate ==
    /\ tool = "k3sapp" /\ cmd = "generate"
    /\ \/ /\ app \in ScalingApps
          /\ env \in Environments
          /\ defaults \in DefaultsInputs
          /\ osEnviron = <<>>
       \/ /\ app \in SecurityApps
          /\ env \in {"gcp"}
          /\ defaults = NoDefaults
          /\ osEnviron = <<>>
       \/ /\ app \in SecretApps
          /\ env \in Environments
          /\ defaults = NoDefaults
          /\ osEnviron \in EnvironInputs
    /\ entries = <<>> /\ func = DefaultFunc /\ svc = DefaultCompose /\ given = <<>>

\* the list of enabled entries, for each of the three tools
InitList ==
    /\ tool \in {"k3sapp", "k3scompose", "k3sfn"} /\ cmd = "list"
    /\ env \in Environments
    /\ entries \in {Numbered(s) : s \in SeqsUpTo(EntryInputs, MaxEntries)}
    /\ app = DefaultApp
    /\ defaults = NoDefaults
    /\ osEnviron = <<>> /\ func = DefaultFunc /\ svc = DefaultCompose /\ given = <<>>

\* k3sfn generate_network_policy for one discovered function
InitFnPolicy ==
    /\ tool = "k3sfn" /\ cmd = "netpol"
    /\ env \in {"local"}
    /\ func \in FuncInputs
    /\ app = DefaultApp
    /\ defaults = NoDefaults
    /\ osEnviron = <<>> /\ entries = <<>> /\ svc = DefaultCompose /\ given = <<>>

\* k3scompose generate_network_policy for one service
InitComposePolicy ==
    /\ tool = "k3scompose" /\ cmd = "netpol"
    /\ env \in Environments
    /\ svc \in ComposeInputs
    /\ app = DefaultApp
    /\ defaults = NoDefaults
    /\ osEnviron = <<>> /\ entries = <<>> /\ func = DefaultFunc /\ given = <<>>

\* the variables a run of one function does not use
NoAppRun ==
    /\ app = DefaultApp /\ defaults = NoDefaults /\ osEnviron = <<>>
    /\ entries = <<>> /\ func = DefaultFunc /\ svc = DefaultCompose

\* AppConfig.from_dict(data) followed by get_effective_scaling(env) and
\* get_effective_resources(env)
InitAppEffective ==
    /\ tool = "k3sapp" /\ cmd = "effective"
    /\ env \in {"local", "gcp"}
    /\ given \in RawAppInputs
    /\ NoAppRun

\* AppConfig.get_effective_environment(env); given keeps the app as it was
\* before the call
InitAppEnvironment ==
    /\ tool = "k3sapp" /\ cmd = "environment"
    /\ env \in {"dev", "gcp"}
    /\ app \in EnvironmentApps
    /\ given = app
    /\ defaults = NoDefaults /\ osEnviron = <<>>
    /\ entries = <<>> /\ func = DefaultFunc /\ svc = DefaultCompose

\* ComposeConfig.from_dict(data).get_effective_namespace(env)
InitComposeNamespace ==
    /\ tool = "k3scompose" /\ cmd = "namespace"
    /\ env \in {"local", "gcp"}
    /\ given \in RawComposeInputs
    /\ NoAppRun

\* k3scompose generate_deployment(service, project, namespace, registry,
\* overrides)
InitComposeDeployment ==
    /\ tool = "k3scompose" /\ cmd = "deployment"
    /\ env = "local"
    /\ given \in ComposeDeploymentInputs \cup ComposeProbeInputs \cup ComposeVolumeInputs
    /\ NoAppRun

\* k3sapp / k3scompose / k3sfn generate-all -e <env> -o out; given holds the
\* entries of apps.yaml with what their paths resolve to
InitGenerateAll ==
    /\ cmd = "generate-all"
    /\ \/ /\ tool = "k3scompose" /\ env = "local"
          /\ given \in ComposeBatchInputs
          /\ defaults = NoDefaults
       \/ /\ tool = "k3sfn" /\ env \in {"local", "gcp"}
          /\ given \in FnBatchInputs
          /\ defaults \in DefaultsInputs \ {NoDefaults}
       \/ /\ tool = "k3sapp" /\ env = "gcp"
          /\ given \in AppBatchInputs
          /\ defaults \in DefaultsInputs \ {NoDefaults}
    /\ app = DefaultApp /\ osEnviron = <<>>
    /\ entries = <<>> /\ func = DefaultFunc /\ svc = DefaultCompose

\* k3sfn generate <source_dir> --name <app> --ingress <type>; given holds the
\* arguments of generate_all_manifests and the functions discovered
InitFnGenerate ==
    /\ tool = "k3sfn" /\ cmd = "generate"
    /\ env = "local"
    /\ given \in FnGenerateInputs
    /\ NoAppRun

\* k3sgateway generate --ingress haproxy; given holds the GatewayConfig
InitGatewayGenerate ==
    /\ tool = "k3sgateway" /\ cmd = "generate"
    /\ env = "gcp"
    /\ given \in GatewayInputs
    /\ NoAppRun

\* k3sapp generate_ingress(app, env, config)
InitAppIngress ==
    /\ tool = "k3sapp" /\ cmd = "ingress"
    /\ env \in Environments
    /\ app \in IngressApps
    /\ defaults \in DefaultsInputs
    /\ osEnviron = <<>> /\ entries = <<>> /\ func = DefaultFunc /\ svc = DefaultCompose
    /\ given = <<>>

\* _to_k8s_name(name) of k3sapp or of k3scompose, called twice
InitK8sName ==
    /\ tool \in {"k3sapp", "k3scompose"} /\ cmd = "k8s-name"
    /\ env = "local"
    /\ given \in NameInputs
    /\ NoAppRun

\* k3sapp generate <app> -e <env> for an app parsed from its apps.yaml entry,
\* which given keeps
InitAppGenerateParsed ==
    /\ tool = "k3sapp" /\ cmd = "generate"
    /\ env \in {"local", "gcp"}
    /\ given \in RawResourceInputs
    /\ app = AppConfig_from_dict(given)
    /\ defaults = NoDefaults
    /\ osEnviron = <<>> /\ entries = <<>> /\ func = DefaultFunc /\ svc = DefaultCompose

\* two calls of generate_all_manifests with the same arguments, in a process
\* whose os.environ is osEnviron; given holds the compose project and its
\* ComposeConfig
InitRegenerate ==
    /\ cmd = "regenerate"
    /\ env \in Environments
    /\ osEnviron \in EnvironInputs
    /\ \/ /\ tool = "k3sapp"
          /\ app \in SecretApps /\ defaults \in DefaultsInputs
          /\ given = <<>>
       \/ /\ tool = "k3scompose"
          /\ given \in RegenerateProjects
          /\ app = DefaultApp /\ defaults = NoDefaults
    /\ entries = <<>> /\ func = DefaultFunc /\ svc = DefaultCompose

\* PortMapping.parse(port_spec) on one port entry of a compose service
InitPortParse ==
    /\ tool = "k3scompose" /\ cmd = "parse-port"
    /\ env = "local"
    /\ given \in PortSpecInputs
    /\ NoAppRun

\* _parse_duration(duration) on one duration of a compose healthcheck
InitParseDuration ==
    /\ tool = "k3scompose" /\ cmd = "parse-duration"
    /\ env = "local"
    /\ given \in DurationInputs
    /\ NoAppRun

\* _convert_memory(memory) on a memory quantity, and again on its result
InitConvertMemory ==
    /\ tool = "k3scompose" /\ cmd = "convert-memory"
    /\ env = "local"
    /\ given \in MemoryInputs
    /\ NoAppRun

\* _convert_cpu(cpus) on one cpu quantity of a compose deploy block
InitConvertCpu ==
    /\ tool = "k3scompose" /\ cmd = "convert-cpu"
    /\ env = "local"
    /\ given \in CpuInputs
    /\ NoAppRun

\* a module that defines one decorated function is imported: the function
\* has no _k3sfn_metadata yet (func) and _registry is empty (entries)
InitDecorate ==
    /\ tool = "k3sfn" /\ cmd = "decorate"
    /\ env = "local"
    /\ given \in DecoratedInputs
    /\ func = None /\ entries = <<>>
    /\ app = DefaultApp /\ defaults = NoDefaults /\ osEnviron = <<>>
    /\ svc = DefaultCompose

Init ==
    /\ pc = "loaded"
    /\ manifests = <<>>
    /\ enabled = <<>>
    /\ policy = None
    /\ returned = None
    /\ (\/ InitAppGenerate \/ InitList \/ InitFnPolicy \/ InitComposePolicy
        \/ InitAppEffective \/ InitAppEnvironment
        \/ InitComposeNamespace \/ InitComposeDeployment
        \/ InitGenerateAll \/ InitFnGenerate \/ InitGatewayGenerate
        \/ InitAppIngress \/ InitK8sName \/ InitAppGenerateParsed
        \/ InitRegenerate \/ InitPortParse
        \/ InitParseDuration
        \/ InitConvertMemory
        \/ InitConvertCpu
        \/ InitDecorate)

\* cli.cmd_generate: generate_all_manifests(app, env, config)
AppGenerate ==
    /\ pc = "loaded" /\ tool = "k3sapp" /\ cmd = "generate"
    /\ manifests' = generate_all_manifests(app, env, defaults, osEnviron)
    /\ pc' = "done"
    /\ UNCHANGED <<given, returned, tool, cmd, env,
                   app, defaults, osEnviron, entries, enabled,
                   func, svc, policy>>

\* k3sapp cmd_list -e env: get_enabled_apps over the parsed apps
AppListEnabled ==
    /\ pc = "loaded" /\ tool = "k3sapp" /\ cmd = "list"
    /\ enabled' = get_enabled_apps([i \in 1..Len(entries) |-> AppConfig_from_dict(entries[i])], env)
    /\ pc' = "done"
    /\ UNCHANGED <<given, returned, tool, cmd, env,
                   app, defaults, osEnviron, manifests, entries,
                   func, svc, policy>>

\* k3scompose cmd_list -e env: get_enabled_compose_projects
ComposeListEnabled ==
    /\ pc = "loaded" /\ tool = "k3scompose" /\ cmd = "list"
    /\ enabled' = get_enabled_compose_projects(
                      [i \in 1..Len(entries) |-> ComposeConfig_from_dict(entries[i])], env)
    /\ pc' = "done"
    /\ UNCHANGED <<given, returned, tool, cmd, env,
                   app, defaults, osEnviron, manifests, entries,
                   func, svc, policy>>

\* k3sfn list-apps: get_enabled_serverless_apps
FnListEnabled ==
    /\ pc = "loaded" /\ tool = "k3sfn" /\ cmd = "list"
    /\ enabled' = get_enabled_serverless_apps(entries, env)
    /\ pc' = "done"
    /\ UNCHANGED <<given, returned, tool, cmd, env,
                   app, defaults, osEnviron, manifests, entries,
                   func, svc, policy>>

\* k3sfn generate_network_policy(func, app_name, namespace)
FnGenerateNetworkPolicy ==
    /\ pc = "loaded" /\ tool = "k3sfn" /\ cmd = "netpol"
    /\ policy' = Some(fn_generate_network_policy(func, <<"f", "n", "s">>, "apps"))
    /\ pc' = "done"
    /\ UNCHANGED <<given, returned, tool, cmd, env,
                   app, defaults, osEnviron, manifests, entries,
                   enabled, func, svc>>

\* k3scompose generate_network_policy(service, project, config, env)
ComposeGenerateNetworkPolicy ==
    /\ pc = "loaded" /\ tool = "k3scompose" /\ cmd = "netpol"
    /\ policy' = compose_generate_network_policy(svc.service, svc.config, env)
    /\ pc' = "done"
    /\ UNCHANGED <<given, returned, tool, cmd, env,
                   app, defaults, osEnviron, manifests, entries,
                   enabled, func, svc>>

\* config = AppConfig.from_dict(data); config.get_effective_scaling(env);
\* config.get_effective_resources(env)
AppEffective ==
    /\ pc = "loaded" /\ tool = "k3sapp" /\ cmd = "effective"
    /\ LET config == AppConfig_from_dict(given) IN
       returned' = Some([scaling |-> get_effective_scaling(config, env),
                         resources |-> get_effective_resources(config, env)])
    /\ pc' = "done"
    /\ UNCHANGED <<given, tool, cmd, env, app, defaults, osEnviron, manifests,
                   entries, enabled, func, svc, policy>>

\* app.get_effective_environment(env)
AppEnvironment ==
    /\ pc = "loaded" /\ tool = "k3sapp" /\ cmd = "environment"
    /\ returned' = Some(get_effective_environment(app, env))
    /\ app' = [app EXCEPT !.environment = environment_after_merge(app, env)]
    /\ pc' = "done"
    /\ UNCHANGED <<given, tool, cmd, env, defaults, osEnviron, manifests,
                   entries, enabled, func, svc, policy>>

\* ComposeConfig.from_dict(data).get_effective_namespace(env)
ComposeNamespace ==
    /\ pc = "loaded" /\ tool = "k3scompose" /\ cmd = "namespace"
    /\ returned' = Some(compose_get_effective_namespace(
                            ComposeConfig_from_dict(given), env))
    /\ pc' = "done"
    /\ UNCHANGED <<given, tool, cmd, env, app, defaults, osEnviron, manifests,
                   entries, enabled, func, svc, policy>>

\* k3scompose generate_deployment(service, project, namespace, registry,
\* overrides)
ComposeGenerateDeployment ==
    /\ pc = "loaded" /\ tool = "k3scompose" /\ cmd = "deployment"
    /\ returned' = Some(compose_generate_deployment(
                            given.service, given.project, given.namespace,
                            given.registry, given.overrides))
    /\ pc' = "done"
    /\ UNCHANGED <<given, tool, cmd, env, app, defaults, osEnviron, manifests,
                   entries, enabled, func, svc, policy>>

\* k3scompose cmd_generate_all
ComposeGenerateAll ==
    /\ pc = "loaded" /\ tool = "k3scompose" /\ cmd = "generate-all"
    /\ returned' = Some(compose_cmd_generate_all(given, env, None, "yaml"))
    /\ pc' = "done"
    /\ UNCHANGED <<given, tool, cmd, env, app, defaults, osEnviron, manifests,
                   entries, enabled, func, svc, policy>>

\* k3sfn generate-all
FnGenerateAll ==
    /\ pc = "loaded" /\ tool = "k3sfn" /\ cmd = "generate-all"
    /\ returned' = Some(fn_cmd_generate_all(given, env, defaults, "out"))
    /\ pc' = "done"
    /\ UNCHANGED <<given, tool, cmd, env, app, defaults, osEnviron, manifests,
                   entries, enabled, func, svc, policy>>

\* k3sapp cmd_generate_all
AppGenerateAll ==
    /\ pc = "loaded" /\ tool = "k3sapp" /\ cmd = "generate-all"
    /\ returned' = Some(app_cmd_generate_all(given, env, defaults, osEnviron, "yaml"))
    /\ pc' = "done"
    /\ UNCHANGED <<given, tool, cmd, env, app, defaults, osEnviron, manifests,
                   entries, enabled, func, svc, policy>>

\* k3sfn generate_all_manifests for one app
FnGenerate ==
    /\ pc = "loaded" /\ tool = "k3sfn" /\ cmd = "generate"
    /\ returned' = Some(fn_generate_all_manifests(
                            <<>>, Some(given.functions), given.app_name, "out",
                            given.namespace, given.registry, given.host,
                            given.ingress_type))
    /\ pc' = "done"
    /\ UNCHANGED <<given, tool, cmd, env, app, defaults, osEnviron, manifests,
                   entries, enabled, func, svc, policy>>

\* k3sgateway generate_all_manifests(gateway_config, output_dir, "haproxy")
GatewayGenerate ==
    /\ pc = "loaded" /\ tool = "k3sgateway" /\ cmd = "generate"
    /\ manifests' = gateway_generate_all_manifests(given, None, FALSE, None)
    /\ pc' = "done"
    /\ UNCHANGED <<given, returned, tool, cmd, env, app, defaults, osEnviron,
                   entries, enabled, func, svc, policy>>

\* k3sapp generate_ingress(app, env, config)
AppIngress ==
    /\ pc = "loaded" /\ tool = "k3sapp" /\ cmd = "ingress"
    /\ returned' = Some(generate_ingress(app, env, defaults))
    /\ pc' = "done"
    /\ UNCHANGED <<given, tool, cmd, env, app, defaults, osEnviron, manifests,
                   entries, enabled, func, svc, policy>>

\* two calls of _to_k8s_name(name): the pair of what they return
ToK8sName ==
    /\ pc = "loaded" /\ cmd = "k8s-name"
    /\ returned' = Some(IF tool = "k3sapp"
                        THEN <<AppToK8sName(given), AppToK8sName(given)>>
                        ELSE <<ComposeToK8sName(given), ComposeToK8sName(given)>>)
    /\ pc' = "done"
    /\ UNCHANGED <<given, tool, cmd, env, app, defaults, osEnviron, manifests,
                   entries, enabled, func, svc, policy>>

\* the generate_all_manifests call of the run's tool on the run's arguments
RegenerateCall ==
    IF tool = "k3sapp"
    THEN generate_all_manifests(app, env, defaults, osEnviron)
    ELSE compose_generate_all_manifests(Val(given.project), given.config, env, None)

\* the first call of generate_all_manifests
RegenerateFirst ==
    /\ pc = "loaded" /\ cmd = "regenerate"
    /\ manifests' = RegenerateCall
    /\ pc' = "once"
    /\ UNCHANGED <<given, returned, tool, cmd, env, app, defaults, osEnviron,
                   entries, enabled, func, svc, policy>>

\* between the two calls the process environment is changed (os.environ is
\* process state that get_literal_env_vars reads and no generator owns)
SetEnviron ==
    /\ pc = "once" /\ cmd = "regenerate"
    /\ osEnviron' \in EnvironInputs \ {osEnviron}
    /\ pc' = "changed"
    /\ UNCHANGED <<given, returned, tool, cmd, env, app, defaults, manifests,
                   entries, enabled, func, svc, policy>>

\* the second call of generate_all_manifests, with the same arguments
RegenerateSecond ==
    /\ pc \in {"once", "changed"} /\ cmd = "regenerate"
    /\ returned' = Some(RegenerateCall)
    /\ pc' = "done"
    /\ UNCHANGED <<given, tool, cmd, env, app, defaults, osEnviron, manifests,
                   entries, enabled, func, svc, policy>>

\* PortMapping.parse
ParsePort ==
    /\ pc = "loaded" /\ cmd = "parse-port"
    /\ returned' = PortMapping_parse(given)
    /\ pc' = "done"
    /\ UNCHANGED <<given, tool, cmd, env, app, defaults, osEnviron, manifests,
                   entries, enabled, func, svc, policy>>

\* _parse_duration
ParseDuration ==
    /\ pc = "loaded" /\ cmd = "parse-duration"
    /\ returned' = Some(parse_duration(given))
    /\ pc' = "done"
    /\ UNCHANGED <<given, tool, cmd, env, app, defaults, osEnviron, manifests,
                   entries, enabled, func, svc, policy>>

\* _convert_memory(memory) and _convert_memory of what it returned
ConvertMemory ==
    /\ pc = "loaded" /\ cmd = "convert-memory"
    /\ returned' = <<convert_memory(given), convert_memory(convert_memory(given))>>
    /\ pc' = "done"
    /\ UNCHANGED <<given, tool, cmd, env, app, defaults, osEnviron, manifests,
                   entries, enabled, func, svc, policy>>

\* _convert_cpu
ConvertCpu ==
    /\ pc = "loaded" /\ cmd = "convert-cpu"
    /\ returned' = Some(convert_cpu(given))
    /\ pc' = "done"
    /\ UNCHANGED <<given, tool, cmd, env, app, defaults, osEnviron, manifests,
                   entries, enabled, func, svc, policy>>

\* the decorator of the stack Python applies next
NextDecorator ==
    IF pc = "loaded" THEN given.stack[1]
    ELSE IF pc = "inner" THEN given.stack[2]
    ELSE "none"

\* the trigger decorator of the stack is applied to the function
ApplyTrigger ==
    /\ cmd = "decorate" /\ NextDecorator = "trigger"
    /\ func' = Some(IF given.trigger.kind = "http" THEN http_trigger(func, given.trigger)
                    ELSE IF given.trigger.kind = "queue" THEN queue_trigger(func, given.trigger)
                    ELSE schedule_trigger(func, given.trigger))
    /\ pc' = IF pc = "loaded" THEN "inner" ELSE "decorated"
    /\ UNCHANGED <<given, returned, tool, cmd, env, app, defaults, osEnviron, manifests,
                   entries, enabled, svc, policy>>

\* serverless is applied to the function: it sets its keys and registers
ApplyServerless ==
    /\ cmd = "decorate" /\ NextDecorator = "serverless"
    /\ func' = Some(serverless_metadata(func, given.serverless, given.name))
    /\ entries' = FunctionRegistry_register(
                      entries,
                      finalize_registration(
                          Some(serverless_metadata(func, given.serverless, given.name)),
                          given.name))
    /\ pc' = IF pc = "loaded" THEN "inner" ELSE "decorated"
    /\ UNCHANGED <<given, returned, tool, cmd, env, app, defaults, osEnviron, manifests,
                   enabled, svc, policy>>

\* FunctionRegistry.get(name) once the module is imported
RegistryGet ==
    /\ cmd = "decorate" /\ pc = "decorated"
    /\ returned' = FunctionRegistry_get(entries, given.name)
    /\ pc' = "done"
    /\ UNCHANGED <<given, tool, cmd, env, app, defaults, osEnviron, manifests,
                   entries, enabled, func, svc, policy>>

Next ==
    \/ AppGenerate
    \/ AppListEnabled
    \/ ComposeListEnabled
    \/ FnListEnabled
    \/ FnGenerateNetworkPolicy
    \/ ComposeGenerateNetworkPolicy
    \/ AppEffective
    \/ AppEnvironment
    \/ ComposeNamespace
    \/ ComposeGenerateDeployment
    \/ ComposeGenerateAll
    \/ FnGenerateAll
    \/ AppGenerateAll
    \/ FnGenerate
    \/ GatewayGenerate
    \/ AppIngress
    \/ ToK8sName
    \/ RegenerateFirst
    \/ SetEnviron
    \/ RegenerateSecond
    \/ ParsePort
    \/ ParseDuration
    \/ ConvertMemory
    \/ ConvertCpu
    \/ ApplyTrigger
    \/ ApplyServerless
    \/ RegistryGet

Spec == Init /\ [][Next]_vars

(***************************************************************************)
(* Properties.  Each states what the specification says a run returns, in  *)
(* terms of the run's inputs only.                                         *)
(***************************************************************************)
Generated == pc = "done" /\ tool = "k3sapp" /\ cmd = "generate"

Listed == pc = "done" /\ cmd = "list"

OfKind(ms, kinds) == SelectByMask(ms, [i \in 1..Len(ms) |-> ms[i].kind \in kinds])

TheDeployment == OfKind(manifests, {"Deployment"})[1]

\* "enabled for environment E", read off the raw apps.yaml entry
SaysEnabled(raw, e) ==
    /\ raw.enabled = None \/ raw.enabled = Some(TRUE)
    /\ \/ raw.blocks[e] = None
       \/ Val(raw.blocks[e]).enabled = None
       \/ Val(raw.blocks[e]).enabled = Some(TRUE)

Names(s) == [i \in 1..Len(s) |-> s[i].name]

\* C1: for each of the three tools and every environment E, the entries
\* reported enabled for E are exactly the entries whose global enabled flag is
\* true and whose override block for E is absent, or does not set enabled, or
\* sets it to true (in the order of the configuration).
C1_EnabledIff ==
    Listed =>
        Names(enabled) =
            Names(SelectByMask(entries,
                               [i \in 1..Len(entries) |-> SaysEnabled(entries[i], env)]))

\* C1 witness: a list of two entries with the global flag on, one switched off
\* by the override block of the target environment, one kept by a block that
\* does not set enabled.
C1_Witness ==
    /\ Listed /\ Len(entries) = 2 /\ Len(enabled) = 1
    /\ entries[1].enabled = Some(TRUE)
    /\ entries[1].blocks[env] # None
    /\ Val(entries[1].blocks[env]).enabled = Some(FALSE)
    /\ entries[2].blocks[env] # None
    /\ Val(entries[2].blocks[env]).enabled = None
    /\ enabled[1].name = entries[2].name

\* effective scaling of an app for an environment, read off the configuration
SaysScaling(a, e) ==
    IF a.overrides[e] # None /\ Val(a.overrides[e]).scaling # None
    THEN Val(Val(a.overrides[e]).scaling)
    ELSE a.scaling

\* the override's replicas, None when the override does not set it
SaysReplicasOverride(a, e) ==
    IF a.overrides[e] # None THEN Val(a.overrides[e]).replicas ELSE None

\* C2: the Deployment's replicas is the override's replicas whenever the
\* override sets it (0 included); otherwise 1 when the effective scaling type
\* is none; otherwise the effective min_instances.
C2_Replicas ==
    Generated =>
        TheDeployment.spec.replicas =
            IF SaysReplicasOverride(app, env) # None
            THEN Val(SaysReplicasOverride(app, env))
            ELSE IF SaysScaling(app, env).type = "none" THEN 1
            ELSE SaysScaling(app, env).min_instances

\* C2 witness: an override that sets replicas to 0 over a scaling whose
\* min_instances is positive.
C2_Witness ==
    /\ Generated
    /\ SaysReplicasOverride(app, env) = Some(0)
    /\ SaysScaling(app, env).type # "none"
    /\ SaysScaling(app, env).min_instances > 0
    /\ TheDeployment.spec.replicas = 0

ScalingKinds == {"HorizontalPodAutoscaler", "HTTPScaledObject", "ScaledObject"}

\* the scaling manifest kind the configuration asks for
SaysScalingKind(t) ==
    IF t = "hpa" THEN "HorizontalPodAutoscaler"
    ELSE IF t = "keda-http" THEN "HTTPScaledObject"
    ELSE "ScaledObject"

\* the trigger type of a ScaledObject the configuration asks for
SaysTrigger(t) == IF t = "keda-queue" THEN "redis" ELSE "cron"

\* C3: generate_all_manifests emits exactly one scaling manifest, of the kind
\* selected by the effective scaling type (HPA for hpa, HTTPScaledObject for
\* keda-http, a queue ScaledObject for keda-queue, a cron ScaledObject for
\* keda-cron), and none for type none.
C3_OneScalingManifest ==
    Generated =>
        LET t == SaysScaling(app, env).type
            found == OfKind(manifests, ScalingKinds)
        IN IF t = "none" THEN found = <<>>
           ELSE /\ Len(found) = 1
                /\ found[1].kind = SaysScalingKind(t)
                /\ found[1].kind = "ScaledObject" =>
                       found[1].spec.triggers[1].type = SaysTrigger(t)

KedaKinds ==
    {"HorizontalPodAutoscaler", "HTTPScaledObject", "ScaledObject",
     "TriggerAuthentication"}

\* C4: when the effective scaling type is none the output has no HPA, no
\* HTTPScaledObject, no ScaledObject and no other KEDA manifest, and the
\* Deployment has 1 replica unless the override sets replicas.
C4_NoScalingForNone ==
    (Generated /\ SaysScaling(app, env).type = "none") =>
        /\ OfKind(manifests, KedaKinds) = <<>>
        /\ \A i \in 1..Len(manifests) :
              manifests[i].apiVersion \notin {"keda.sh/v1alpha1", "http.keda.sh/v1alpha1",
                                              "autoscaling/v2"}
        /\ SaysReplicasOverride(app, env) = None => TheDeployment.spec.replicas = 1

\* C4 witness: a keda-http app whose local override sets scaling none and one
\* replica, generated for local.
C4_Witness ==
    /\ Generated /\ env = "local"
    /\ app.scaling.type = "keda-http"
    /\ app.overrides["local"] # None
    /\ Val(app.overrides["local"]).scaling # None
    /\ Val(Val(app.overrides["local"]).scaling).type = "none"
    /\ Val(app.overrides["local"]).replicas = Some(1)
    /\ TheDeployment.spec.replicas = 1
    /\ OfKind(manifests, KedaKinds) = <<>>


\* the NetworkPolicy of a k3sapp run (an empty list when none is generated)
AppPolicies == OfKind(manifests, {"NetworkPolicy"})

FnPolicyDone == pc = "done" /\ tool = "k3sfn" /\ cmd = "netpol"

ComposePolicyDone == pc = "done" /\ tool = "k3scompose" /\ cmd = "netpol"

\* the port of the workload a k3sapp policy protects
SaysPort(a) == IF a.ports = <<>> THEN 8080 ELSE a.ports[1].container_port

\* the rule "from the keda namespace, on TCP port p"
SaysKedaRule(p) ==
    [from |-> <<[namespaceSelector |-> Some({<<"kubernetes.io/metadata.name", "keda">>}),
                 podSelector |-> None, ipBlock |-> None]>>,
     ports |-> <<[protocol |-> "TCP", port |-> p]>>]

\* a k3sfn function whose access-rule list is empty
NoAccessRules(f) ==
    \/ f.access_rules = None
    \/ /\ Val(f.access_rules).namespaces = <<>>
       /\ Val(f.access_rules).pod_labels = {}
       /\ Val(f.access_rules).service_accounts = <<>>

HasKedaRule(ingress, p) == \E j \in 1..Len(ingress) : ingress[j] = SaysKedaRule(p)

\* a rule list admits the pods of the keda namespace on TCP port p, through
\* the dedicated rule or through a rule for any namespace
AdmitsKeda(ingress, p) ==
    \E j \in 1..Len(ingress) :
        /\ [protocol |-> "TCP", port |-> p] \in Range(ingress[j].ports)
        /\ \E k \in 1..Len(ingress[j].from) :
              /\ ingress[j].from[k].podSelector = None
              /\ ingress[j].from[k].ipBlock = None
              /\ ingress[j].from[k].namespaceSelector \in
                     {Some({}), Some({<<"kubernetes.io/metadata.name", "keda">>})}

SaysFnKeda(f) ==
    \/ f.visibility = "public"
    \/ f.visibility \in {"private", "restricted"} /\ f.trigger_type = "http"

SaysPeer(ns, pod, cidr) == [namespaceSelector |-> ns, podSelector |-> pod, ipBlock |-> cidr]

SaysAnyNamespace == SaysPeer(Some({}), None, None)

SaysOwnNamespacePods == SaysPeer(None, Some({}), None)

SaysIngressController ==
    SaysPeer(Some({<<"kubernetes.io/metadata.name", "kube-system">>}),
             Some({<<"app.kubernetes.io/name", "traefik">>}), None)

\* the peer one configured allow_from / allow_to rule stands for
SaysRulePeer(r) ==
    SaysPeer(IF r.namespace = None THEN None
             ELSE Some({<<"kubernetes.io/metadata.name", Val(r.namespace)>>}),
             IF r.pod_labels = {} THEN None ELSE Some(r.pod_labels),
             r.cidr)

\* the sources a rule list admits, the keda rule on port p set aside
Sources(ingress, p) ==
    UNION {Range(ingress[i].from) :
              i \in {j \in 1..Len(ingress) : ingress[j] # SaysKedaRule(p)}}

\* the sources a RESTRICTED k3sfn function lists
SaysFnListed(f) ==
    IF f.access_rules = None THEN {}
    ELSE {SaysPeer(Some({<<"kubernetes.io/metadata.name", n>>}), None, None) :
             n \in Range(Val(f.access_rules).namespaces)}
         \cup (IF Val(f.access_rules).pod_labels = {} THEN {}
               ELSE {SaysPeer(None, Some(Val(f.access_rules).pod_labels), None)})

\* C7: apart from the keda rule, the sources a NetworkPolicy admits are fixed
\* by the visibility alone: PUBLIC the ingress-controller namespace, INTERNAL
\* any namespace, PRIVATE the pods of the workload's own namespace, RESTRICTED
\* exactly the listed namespaces and selectors.
C7_SourcesByVisibility ==
    /\ Generated =>
           \A i \in 1..Len(AppPolicies) :
              Sources(AppPolicies[i].spec.ingress, SaysPort(app)) =
                  IF app.security.visibility = "internal" THEN {SaysAnyNamespace}
                  ELSE IF app.security.visibility = "private" THEN {SaysOwnNamespacePods}
                  ELSE {SaysRulePeer(r) :
                           r \in Range(app.security.network_policy.allow_from)}
                       \ {SaysPeer(None, None, None)}
    /\ FnPolicyDone =>
           Sources(Val(policy).spec.ingress, 8080) =
               IF func.visibility = "public" THEN {SaysIngressController}
               ELSE IF func.visibility = "internal" THEN {SaysAnyNamespace}
               ELSE IF func.visibility = "private" THEN {SaysOwnNamespacePods}
               ELSE SaysFnListed(func)

\* the egress rule that allows DNS: port 53, UDP and TCP, to the kube-dns pods
SaysDnsRule ==
    [to |-> <<SaysPeer(Some({}), Some({<<"k8s-app", "kube-dns">>}), None)>>,
     ports |-> <<[protocol |-> "UDP", port |-> 53], [protocol |-> "TCP", port |-> 53]>>]

RECURSIVE SaysEgress(_)
\* the configured egress rules in their order (a rule that names no
\* namespace, no pod labels and no cidr names no destination)
SaysEgress(rules) ==
    IF rules = <<>> THEN <<>>
    ELSE (IF SaysRulePeer(Head(rules)) = SaysPeer(None, None, None) THEN <<>>
          ELSE <<[to |-> <<SaysRulePeer(Head(rules))>>, ports |-> <<>>]>>)
         \o SaysEgress(Tail(rules))

\* what C8 says of one policy, given the configured allow_to list
EgressAsConfigured(pol, allow_to) ==
    /\ ("Egress" \in Range(pol.spec.policyTypes)) <=> (pol.spec.egress # None)
    /\ (pol.spec.egress # None) <=> (allow_to # <<>>)
    /\ "Ingress" \in Range(pol.spec.policyTypes)
    /\ pol.spec.egress # None =>
           Val(pol.spec.egress) = <<SaysDnsRule>> \o SaysEgress(allow_to)

\* C8: the policyTypes of a NetworkPolicy of k3sapp and of k3scompose contain
\* "Egress" exactly when spec.egress is present, which is exactly when at
\* least one allow_to rule is configured; when present, the first egress rule
\* allows DNS (port 53, UDP and TCP, to the kube-dns pods) and the configured
\* rules follow in their order.
C8_EgressIffAllowTo ==
    /\ Generated =>
           \A i \in 1..Len(AppPolicies) :
              EgressAsConfigured(AppPolicies[i], app.security.network_policy.allow_to)
    /\ (ComposePolicyDone /\ policy # None) =>
           EgressAsConfigured(Val(policy),
               compose_get_effective_security(svc.config, env).network_policy.allow_to)

\* C8 witness: a k3sapp policy with two configured allow_to rules after the
\* DNS rule.
C8_Witness ==
    /\ Generated /\ Len(AppPolicies) = 1
    /\ Len(app.security.network_policy.allow_to) = 2
    /\ AppPolicies[1].spec.egress # None
    /\ Len(Val(AppPolicies[1].spec.egress)) = 3
    /\ Val(AppPolicies[1].spec.egress)[2] # Val(AppPolicies[1].spec.egress)[3]
    /\ AppPolicies[1].spec.policyTypes = <<"Ingress", "Egress">>

\* the keys of the gcp secret references of an environment map, in order
RECURSIVE SaysGcpKeys(_)
SaysGcpKeys(d) ==
    IF d = <<>> THEN <<>>
    ELSE (IF Head(d)[2].secret_ref # None /\ Val(Head(d)[2].secret_ref).provider = "gcp"
          THEN <<Head(d)[1]>> ELSE <<>>) \o SaysGcpKeys(Tail(d))

ExternalSecrets == OfKind(manifests, {"ExternalSecret"})

\* C9: k3sapp emits an ExternalSecret exactly when the environment is not
\* local and the app's environment map has at least one secret reference
\* whose provider is gcp; its data has exactly one entry per gcp reference and
\* none for a reference to another provider.
C9_ExternalSecretIffGcp ==
    Generated =>
        /\ Len(ExternalSecrets) =
               IF env # "local" /\ SaysGcpKeys(app.environment) # <<>> THEN 1 ELSE 0
        /\ \A i \in 1..Len(ExternalSecrets) :
              [j \in 1..Len(ExternalSecrets[i].spec.data) |->
                  ExternalSecrets[i].spec.data[j].secretKey]
                  = SaysGcpKeys(app.environment)

\* C9 witness: an environment map with two gcp references, an aws reference
\* and a literal, generated for a cloud environment.
C9_Witness ==
    /\ Generated /\ env = "gcp"
    /\ Len(app.environment) = 4
    /\ Len(ExternalSecrets) = 1
    /\ Len(ExternalSecrets[1].spec.data) = 2

\* C10: a keda-http app (min 0, max 10, 100 pending requests) with ingress
\* enabled on /api, generated for gcp where the ingress type is haproxy,
\* yields exactly one Deployment with 0 replicas, one Service selecting the
\* app's pods, one HTTPScaledObject (min 0, max 10, target 100), one HAProxy
\* Ingress and one ExternalName Service keda-route-<name>, and no HPA,
\* ScaledObject, IngressRoute or Middleware.
C10_KedaHttpHaproxy ==
    (/\ Generated /\ env = "gcp"
     /\ app.scaling.type = "keda-http" /\ app.scaling.min_instances = 0
     /\ app.scaling.max_instances = 10 /\ app.scaling.target_pending_requests = 100
     /\ app.overrides["gcp"] = None
     /\ app.ingress.enabled /\ app.ingress.path = <<"/", "a", "p", "i">>
     /\ <<"gcp", "haproxy">> \in Range(defaults.ingress)) =>
        LET services == OfKind(manifests, {"Service"})
            scaled == OfKind(manifests, {"HTTPScaledObject"})
            ingresses == OfKind(manifests, {"Ingress"})
        IN /\ Len(OfKind(manifests, {"Deployment"})) = 1
           /\ TheDeployment.spec.replicas = 0
           /\ TheDeployment.metadata.name = "my-app"
           /\ Len(services) = 2
           /\ \E i, j \in 1..2 :
                 /\ services[i].spec.selector = Some({<<"app", "my-app">>})
                 /\ services[i].spec.type # Some("ExternalName")
                 /\ services[i].metadata.name = "my-app"
                 /\ services[j].spec.type = Some("ExternalName")
                 /\ services[j].metadata.name = "keda-route-my-app"
           /\ Len(scaled) = 1
           /\ scaled[1].spec.replicas = [min |-> 0, max |-> 10]
           /\ scaled[1].spec.scalingMetric.requestRate.targetValue = 100
           /\ scaled[1].spec.scaleTargetRef.name = "my-app"
           /\ Len(ingresses) = 1
           /\ ingresses[1].spec.ingressClassName = "haproxy"
           /\ ingresses[1].spec.rules[1].paths[1].path = "/api"
           /\ OfKind(manifests, {"HorizontalPodAutoscaler", "ScaledObject",
                                 "IngressRoute", "Middleware"}) = <<>>

\* C10 witness: that app, carrying the local override of C4, generated for gcp.
C10_Witness ==
    /\ Generated /\ env = "gcp"
    /\ app.scaling.type = "keda-http" /\ app.scaling.min_instances = 0
    /\ app.overrides["gcp"] = None
    /\ app.overrides["local"] # None
    /\ Val(app.overrides["local"]).scaling # None
    /\ app.ingress.enabled
    /\ <<"gcp", "haproxy">> \in Range(defaults.ingress)
    /\ Len(manifests) = 6
    /\ OfKind(manifests, {"HTTPScaledObject"}) # <<>>

EffectiveDone == pc = "done" /\ tool = "k3sapp" /\ cmd = "effective"

\* a raw dict is absent or {}
SaysUnset(d) == d = None \/ \A k \in DOMAIN Val(d) : Val(d)[k] = None

\* the scaling a raw dict stands for on its own: its keys, the documented
\* defaults for the keys it omits
SaysScalingAlone(d) ==
    IF SaysUnset(d) THEN DefaultScaling
    ELSE [DefaultScaling EXCEPT
            !.type = IF Val(d).type = None THEN "keda-http" ELSE Val(Val(d).type),
            !.min_instances = IF Val(d).min_instances = None THEN 0
                              ELSE Val(Val(d).min_instances),
            !.max_instances = IF Val(d).max_instances = None THEN 10
                              ELSE Val(Val(d).max_instances)]

\* the resources a raw dict stands for on its own
SaysResourcesAlone(d) ==
    LET memory == IF SaysUnset(d) \/ Val(d).memory = None THEN "256Mi"
                  ELSE Val(Val(d).memory)
    IN [memory |-> memory,
        cpu |-> IF SaysUnset(d) \/ Val(d).cpu = None THEN "100m" ELSE Val(Val(d).cpu),
        memory_limit |-> IF SaysUnset(d) \/ Val(d).memory_limit = None
                         THEN Some(memory) ELSE Val(d).memory_limit,
        cpu_limit |-> IF SaysUnset(d) THEN None ELSE Val(d).cpu_limit,
        ephemeral_storage |-> None]

\* the override block of the raw entry for e sets the key (to a dict that is
\* not {})
BlockSetsScaling(r, e) == r.blocks[e] # None /\ ~SaysUnset(Val(r.blocks[e]).scaling)

BlockSetsResources(r, e) == r.blocks[e] # None /\ ~SaysUnset(Val(r.blocks[e]).resources)

\* C11: get_effective_scaling(env) and get_effective_resources(env) return the
\* base value unchanged when the app has no override block for env or the
\* block does not set the field, and otherwise the override's value in full:
\* a key the override's dict omits takes its default, never the base's value.
C11_OverrideInFull ==
    EffectiveDone =>
        /\ Val(returned).scaling =
               IF BlockSetsScaling(given, env)
               THEN SaysScalingAlone(Val(given.blocks[env]).scaling)
               ELSE SaysScalingAlone(given.scaling)
        /\ Val(returned).resources =
               IF BlockSetsResources(given, env)
               THEN SaysResourcesAlone(Val(given.blocks[env]).resources)
               ELSE SaysResourcesAlone(given.resources)

\* C11 witness: the base sets min_instances and max_instances and memory, the
\* override sets only the scaling type and only the cpu; the omitted keys come
\* back with their defaults.
C11_Witness ==
    /\ EffectiveDone /\ env = "local"
    /\ given.scaling # None /\ Val(given.scaling).max_instances = Some(5)
    /\ given.resources # None /\ Val(given.resources).memory = Some("1Gi")
    /\ BlockSetsScaling(given, env)
    /\ Val(Val(given.blocks[env]).scaling).max_instances = None
    /\ BlockSetsResources(given, env)
    /\ Val(Val(given.blocks[env]).resources).memory = None
    /\ Val(returned).scaling.max_instances = 10
    /\ Val(returned).resources.memory = "256Mi"
    /\ Val(returned).resources.memory_limit = Some("256Mi")

EnvironmentDone == pc = "done" /\ tool = "k3sapp" /\ cmd = "environment"

Keys(d) == {d[i][1] : i \in 1..Len(d)}

\* the value a dict holds for a key it has
At(d, k) == d[CHOOSE i \in 1..Len(d) : d[i][1] = k][2]

\* the environment dict of the override block for e ({} when there is none)
SaysOverrideEnvironment(a, e) ==
    IF a.overrides[e] = None THEN <<>> ELSE Val(a.overrides[e]).environment

\* C12: get_effective_environment(env) returns a map whose keys are exactly
\* the keys of the base environment and of the override's environment; a key
\* of the override has the override's value, a key of the base alone has the
\* base's value; the base map and the override's map are left as they were.
C12_EnvironmentMerge ==
    EnvironmentDone =>
        LET base == given.environment
            over == SaysOverrideEnvironment(given, env)
            merged == Val(returned)
        IN /\ Keys(merged) = Keys(base) \cup Keys(over)
           /\ Len(merged) = Cardinality(Keys(merged))
           /\ \A k \in Keys(over) :
                 At(merged, k) = [value |-> Some(At(over, k)), secret_ref |-> None]
           /\ \A k \in Keys(base) \ Keys(over) : At(merged, k) = At(base, k)
           /\ app.environment = base
           /\ app.overrides = given.overrides

\* C12 witness: the override replaces the secret DB_PASSWORD of a base map
\* with three other keys.
C12_Witness ==
    /\ EnvironmentDone /\ env = "dev"
    /\ Len(given.environment) = 4
    /\ At(given.environment, "DB_PASSWORD").secret_ref # None
    /\ Keys(SaysOverrideEnvironment(given, env)) = {"DB_PASSWORD"}
    /\ Len(Val(returned)) = 4
    /\ At(Val(returned), "DB_PASSWORD").secret_ref = None
    /\ At(Val(returned), "AWS_KEY").secret_ref # None

ComposeNamespaceDone == pc = "done" /\ tool = "k3scompose" /\ cmd = "namespace"

\* C13: on a config parsed with ComposeConfig.from_dict,
\* get_effective_namespace(env) returns the namespace of the override block
\* for env when the block sets one, and the project's base namespace when
\* there is no block for env or the block sets no namespace.
C13_ComposeNamespace ==
    ComposeNamespaceDone =>
        Val(returned) =
            IF given.blocks[env] # None /\ Val(given.blocks[env]).namespace # None
            THEN Val(Val(given.blocks[env]).namespace)
            ELSE IF given.namespace = None THEN "apps" ELSE Val(given.namespace)

ComposeDeploymentDone ==
    pc = "done" /\ tool = "k3scompose" /\ cmd = "deployment"
    /\ Val(returned).raised = None

\* the replicas the specification gives a compose Deployment: the override's
\* replicas when the override sets them, else the service's deploy.replicas
SaysComposeReplicas(service, overrides) ==
    IF overrides # None /\ Val(overrides).replicas # None
    THEN Val(Val(overrides).replicas)
    ELSE service.deploy.replicas

\* C14: k3scompose generate_deployment sets spec.replicas to the environment
\* override's replicas whenever the override sets replicas (for every value,
\* 0 included), and to the service's deploy.replicas (default 1) when no
\* override sets it.
C14_ComposeReplicas ==
    ComposeDeploymentDone =>
        Val(Val(returned).value).spec.replicas
            = SaysComposeReplicas(given.service, given.overrides)

GenerateAllDone == pc = "done" /\ cmd = "generate-all"

\* the entries of the batch that are enabled for the environment
SaysBatchEnabled ==
    IF tool = "k3scompose"
    THEN SelectSeq(given, LAMBDA x : x.config.enabled)
    ELSE IF tool = "k3sfn" THEN SelectSeq(given, LAMBDA x : x.enabled # Some(FALSE))
    ELSE SelectSeq(given, LAMBDA x : x.enabled)

\* the name of an entry of the batch
SaysEntryName(x) == IF tool = "k3scompose" THEN Join(x.config.name) ELSE Join(x.name)

\* an enabled entry whose manifest generation fails: a compose service with
\* neither image nor build, a serverless app whose functions directory is
\* missing or, for haproxy, whose public function has no HTTP trigger
SaysGenerationFails(x) ==
    IF tool = "k3scompose"
    THEN x.project # None
         /\ \E i \in 1..Len(Val(x.project).services) :
                Val(x.project).services[i].image = None
                /\ ~Val(x.project).services[i].build
    ELSE IF tool = "k3sfn"
    THEN x.path # None
         /\ (x.source = None
             \/ (DictGet(defaults.ingress, env, "traefik") = "haproxy"
                 /\ \E i \in 1..Len(Val(x.source)) :
                        Val(x.source)[i].http_trigger = None))
    ELSE FALSE

\* an enabled entry that has something to generate from and does not fail
SaysGenerates(x) ==
    /\ ~SaysGenerationFails(x)
    /\ tool = "k3scompose" => x.project # None
    /\ tool = "k3sfn" => x.path # None /\ x.source # None

\* the file the manifests of an entry are written to
SaysManifestFile(x) ==
    IF tool = "k3sfn" THEN "out/" \o SaysEntryName(x) \o "/manifests.yaml"
    ELSE SaysEntryName(x) \o ".yaml"

\* the lines that report a failed generation
SaysFailureLines ==
    {"Error: Functions directory not found",
     "Error: Function get_User is not an HTTP trigger",
     "Error: Service web has no image or build context"}

\* the run of the same command over the first k entries of the batch
SaysRunOfFirst(k) ==
    LET first == SubSeq(given, 1, k) IN
    IF tool = "k3scompose" THEN compose_cmd_generate_all(first, env, None, "yaml")
    ELSE IF tool = "k3sfn" THEN fn_cmd_generate_all(first, env, defaults, "out")
    ELSE app_cmd_generate_all(first, env, defaults, osEnviron, "yaml")

\* C15: in a generate-all run over several enabled entries, when manifest
\* generation fails for one entry the run reports that failure, still
\* generates and writes the manifests of every later entry, and the files
\* written for the entries before it are as they were when it failed.
C15_BatchContinues ==
    GenerateAllDone =>
        LET out == Val(returned) IN
        \A i \in 1..Len(given) :
            (given[i] \in Range(SaysBatchEnabled) /\ SaysGenerationFails(given[i])) =>
                /\ \E k \in 1..Len(out.printed) : out.printed[k] \in SaysFailureLines
                /\ \A j \in (i + 1)..Len(given) :
                        (given[j] \in Range(SaysBatchEnabled) /\ SaysGenerates(given[j]))
                            => DictHas(out.files, SaysManifestFile(given[j]))
                /\ \A j \in 1..Len(SaysRunOfFirst(i - 1).files) :
                        SaysRunOfFirst(i - 1).files[j] \in Range(out.files)

SaysInterceptor == "keda-add-ons-http-interceptor-proxy.keda.svc.cluster.local"

\* a run that produced HAProxy output
HaproxyDone ==
    /\ pc = "done" /\ cmd = "generate"
    /\ tool = "k3sapp" => get_ingress_type(defaults, env) = "haproxy"
    /\ tool = "k3sfn" => /\ given.ingress_type = "haproxy"
                         /\ Val(returned).raised = None
                         /\ given.functions # <<>>
    /\ tool \in {"k3sapp", "k3sfn", "k3sgateway"}

\* the manifest list of that run
HaproxyOutput ==
    IF tool = "k3sfn" THEN DictGet(Val(returned).files, "out/manifests.yaml", <<>>)
    ELSE manifests

\* lower case and "-" for "_", character by character
SaysDashed(cs) ==
    Join([i \in 1..Len(cs) |-> IF cs[i] = "_" THEN "-" ELSE Lower(cs[i])])

\* what is routed in the run: for each routed app, public HTTP function or
\* gateway route the name its Service has to have, the {service}.{namespace}
\* its Host header has to be set to, and what may follow in config-backend
SaysRoutes ==
    IF tool = "k3sapp"
    THEN IF app.ingress.enabled
         THEN {[service |-> "keda-route-" \o SaysDashed(app.name),
                host |-> SaysDashed(app.name) \o "." \o app.namespace,
                tails |-> {"", "http-request set-path %[path,regsub(^"
                               \o Join(RStripSlash(app.ingress.path)) \o "/,/),regsub(^"
                               \o Join(RStripSlash(app.ingress.path)) \o "$,/)]\n"}]}
         ELSE {}
    ELSE IF tool = "k3sfn"
    THEN {[service |-> "keda-route-" \o SaysDashed(given.app_name) \o "-"
                       \o SaysDashed(given.functions[i].name),
           host |-> SaysDashed(given.app_name) \o "-"
                    \o SaysDashed(given.functions[i].name) \o "." \o given.namespace,
           tails |-> {""}] :
            i \in {j \in 1..Len(given.functions) :
                    /\ given.functions[j].trigger_type = "http"
                    /\ given.functions[j].visibility = "public"}}
    ELSE {[service |-> "keda-route-" \o GatewayRouteName(given.routes[i]),
           host |-> service_name(given.routes[i]) \o "."
                    \o service_namespace(given.routes[i]),
           tails |-> {"", "http-request replace-path " \o Join(given.routes[i].path)
                          \o "(.*) /\\1\n"}] :
            i \in 1..Len(given.routes)}

\* the Services of the output that have the given name
SaysServicesNamed(n) ==
    {i \in 1..Len(HaproxyOutput) :
        HaproxyOutput[i].kind = "Service" /\ HaproxyOutput[i].metadata.name = n}

\* an Ingress with exactly one backend, the given Service, whose
\* config-backend annotation sets the Host header to the given host
SaysIngressFor(m, r) ==
    /\ m.kind = "Ingress"
    /\ Len(m.spec.rules) = 1 /\ Len(m.spec.rules[1].paths) = 1
    /\ m.spec.rules[1].paths[1].backend.service = r.service
    /\ \E t \in r.tails :
        DictGet(m.metadata.annotations, "haproxy-ingress.github.io/config-backend", "")
            = "http-request set-header Host " \o r.host \o "\n" \o t

\* C16: in HAProxy output of k3sapp, k3sfn and k3sgateway every routed app,
\* public HTTP function or gateway route has exactly one Service of type
\* ExternalName, pointing at the one interceptor DNS name, and an Ingress with
\* exactly one backend, that Service, whose config-backend annotation sets the
\* Host header to the route's own {service}.{namespace}.
C16_HaproxyRoutes ==
    HaproxyDone =>
        \A r \in SaysRoutes :
            /\ Cardinality(SaysServicesNamed(r.service)) = 1
            /\ \A i \in SaysServicesNamed(r.service) :
                    /\ HaproxyOutput[i].spec.type = Some("ExternalName")
                    /\ HaproxyOutput[i].spec.externalName = Some(SaysInterceptor)
            /\ \E i \in 1..Len(HaproxyOutput) : SaysIngressFor(HaproxyOutput[i], r)

IngressDone == pc = "done" /\ tool = "k3sapp" /\ cmd = "ingress"

\* the ingress type of the environment: the default of apps.yaml for it,
\* traefik when there is none
SaysIngressType ==
    IF \E i \in 1..Len(defaults.ingress) : defaults.ingress[i][1] = env
    THEN defaults.ingress[CHOOSE i \in 1..Len(defaults.ingress) :
                            defaults.ingress[i][1] = env][2]
    ELSE "traefik"

\* [ExternalName Service keda-route-{name}, HAProxy Ingress]
SaysHaproxyPair(r) ==
    /\ Len(r) = 2
    /\ r[1].kind = "Service" /\ r[1].spec.type = Some("ExternalName")
    /\ r[1].metadata.name = "keda-route-" \o SaysDashed(app.name)
    /\ r[2].kind = "Ingress" /\ r[2].apiVersion = "networking.k8s.io/v1"
    /\ r[2].spec.ingressClassName = "haproxy"

\* [Traefik Middleware, Traefik IngressRoute]
SaysTraefikPair(r) ==
    /\ Len(r) = 2
    /\ r[1].kind = "Middleware" /\ r[1].apiVersion = "traefik.io/v1alpha1"
    /\ r[2].kind = "IngressRoute" /\ r[2].apiVersion = "traefik.io/v1alpha1"

\* C17: for an app with ingress enabled generate_ingress returns exactly the
\* ExternalName Service keda-route-{name} and the HAProxy Ingress when the
\* environment's ingress type is haproxy, and exactly the Traefik Middleware
\* and IngressRoute otherwise, never objects of both backends; for an app
\* with ingress disabled it returns the empty list.
C17_IngressBackends ==
    IngressDone =>
        IF ~app.ingress.enabled THEN Val(returned) = <<>>
        ELSE IF SaysIngressType = "haproxy" THEN SaysHaproxyPair(Val(returned))
        ELSE SaysTraefikPair(Val(returned))

\* generate_ingress has returned the HAProxy pair for an app with ingress
C17_Witness ==
    /\ IngressDone /\ app.ingress.enabled /\ SaysIngressType = "haproxy"
    /\ Len(Val(returned)) = 2

K8sNameDone == pc = "done" /\ cmd = "k8s-name"

\* lower-case letters, digits and the hyphen
SaysNameChars == Range(LowerChars) \cup Digits \cup {"-"}

\* C18: for every input name _to_k8s_name, in k3sapp and in k3scompose,
\* returns a string of lower-case letters, digits and hyphens only that is at
\* most 63 characters long, and two calls on one input return the same.
C18_K8sNameValid ==
    K8sNameDone =>
        LET out == Val(returned) IN
        /\ out[1] = out[2]
        /\ Len(out[1]) <= 63
        /\ \A i \in 1..Len(out[1]) : out[1][i] \in SaysNameChars

\* the resources dict in effect for the run: the one of the environment's
\* block when the block sets resources, else the base one; None for an app
\* that sets no resources anywhere
SaysResourcesDict ==
    IF given = <<>> THEN None
    ELSE IF BlockSetsResources(given, env) THEN Val(given.blocks[env]).resources
    ELSE IF SaysUnset(given.resources) THEN None
    ELSE given.resources

\* the container resources of the generated Deployment
TheLimits == TheDeployment.spec.template.spec.containers[1].resources.limits

\* C19: every Deployment of k3sapp generate_deployment has
\* resources.limits.memory set, to the effective memory_limit when one is
\* configured and to the effective memory request otherwise, and has
\* resources.limits.cpu if and only if a cpu_limit is configured in the
\* effective resources.
C19_ResourceLimits ==
    Generated =>
        LET d == SaysResourcesDict
            memory == IF d = None \/ Val(d).memory = None THEN "256Mi"
                      ELSE Val(Val(d).memory)
        IN /\ TheLimits.memory =
                IF d # None /\ Val(d).memory_limit # None THEN Val(d).memory_limit
                ELSE Some(memory)
           /\ TheLimits.cpu = IF d = None THEN None ELSE Val(d).cpu_limit

\* a Deployment generated from an override block that sets a cpu_limit but no
\* memory_limit, over a base that sets a memory_limit
C19_Witness ==
    /\ Generated /\ given # <<>> /\ env = "local"
    /\ given.resources # None /\ Val(given.resources).memory_limit = Some("2Gi")
    /\ BlockSetsResources(given, env)
    /\ Val(Val(given.blocks[env]).resources).cpu_limit = Some("1")
    /\ TheLimits = [memory |-> Some("256Mi"), cpu |-> Some("1")]

Regenerated == pc = "done" /\ cmd = "regenerate"

\* C20: calling k3sapp generate_all_manifests or k3scompose
\* generate_all_manifests twice with the same configuration entry, the same
\* environment and the same root config returns two equal manifest lists (same
\* manifests, same order, same field values); the first call does not
\* influence the second.
C20_Deterministic ==
    Regenerated => returned = Some(manifests)

PortParsed == pc = "done" /\ cmd = "parse-port"

\* what the specification says PortMapping.parse returns
SaysPortMapping(host, container, protocol) ==
    [raised |-> None,
     value |-> Some([host_port |-> host, container_port |-> container,
                     protocol |-> protocol])]

SaysUpperProtocol(pr) ==
    IF pr \in {<<"t", "c", "p">>} THEN "TCP"
    ELSE IF pr \in {<<"u", "d", "p">>, <<"U", "D", "P">>} THEN "UDP"
    ELSE "SCTP"

\* C21: PortMapping.parse returns a PortMapping for each of the five accepted
\* forms: int p gives host p and container p; "h:c" gives host h, container
\* c, protocol TCP; "h:c/proto" gives host h, container c and the protocol
\* upper-cased; "ip:h:c" gives host h, container c; bare "c" gives no host
\* port and container c. It never returns nothing for an accepted form.
C21_PortForms ==
    PortParsed =>
        /\ \A p \in PortNumbers :
              given.int = Some(p) => returned = SaysPortMapping(Some(p), p, "TCP")
        /\ \A h, c \in PortNumbers :
              /\ (given.int = None /\ given.str = DecimalOf(c))
                    => returned = SaysPortMapping(None, c, "TCP")
              /\ (given.int = None /\ given.str = DecimalOf(h) \o <<":">> \o DecimalOf(c))
                    => returned = SaysPortMapping(Some(h), c, "TCP")
              /\ \A pr \in PortProtocols :
                    (given.int = None
                     /\ given.str = DecimalOf(h) \o <<":">> \o DecimalOf(c) \o <<"/">> \o pr)
                        => returned = SaysPortMapping(Some(h), c, SaysUpperProtocol(pr))
              /\ \A ip \in PortAddresses :
                    (given.int = None
                     /\ given.str = ip \o <<":">> \o DecimalOf(h) \o <<":">> \o DecimalOf(c))
                        => returned = SaysPortMapping(Some(h), c, "TCP")

\* the entry "53:53/udp" parsed
C21_Witness ==
    /\ PortParsed
    /\ given.int = None
    /\ given.str = <<"5", "3", ":", "5", "3", "/", "u", "d", "p">>
    /\ returned = SaysPortMapping(Some(53), 53, "UDP")

DurationParsed == pc = "done" /\ cmd = "parse-duration"

SaysUnitSeconds(u) == IF u = "h" THEN 3600 ELSE IF u = "m" THEN 60 ELSE 1

RECURSIVE SaysSeconds(_, _)
\* the seconds a compose duration denotes: the sum of its N<unit> terms, a
\* number without unit counting seconds; n is the number being read
SaysSeconds(cs, n) ==
    IF cs = <<>> THEN n
    ELSE IF Head(cs) \in {"h", "m", "s"}
    THEN n * SaysUnitSeconds(Head(cs)) + SaysSeconds(Tail(cs), 0)
    ELSE SaysSeconds(Tail(cs), 10 * n + (CHOOSE d \in 0..9 : ToString(d) = Head(cs)))

\* C23: _parse_duration converts every compose duration string to the number
\* of seconds it denotes: a bare non-negative integer N and "Ns" give N, "Nm"
\* gives 60*N, "Nh" gives 3600*N, the empty string gives 0; the result is
\* always a non-negative integer.
C23_DurationSeconds ==
    DurationParsed =>
        /\ returned = Some(SaysSeconds(given, 0))
        /\ Val(returned) \in Nat

\* the container of the Deployment k3scompose generate_deployment returned
TheComposeContainer == Val(Val(returned).value).spec.template.spec.containers[1]

\* the run generated the Deployment of a service that has a healthcheck
ProbeDone ==
    /\ ComposeDeploymentDone
    /\ Val(returned).raised = None
    /\ given.service.healthcheck # None

TheTest == Val(given.service.healthcheck).test

RECURSIVE SaysSpaced(_)
\* the elements joined by single spaces
SaysSpaced(ws) ==
    IF ws = <<>> THEN ""
    ELSE IF Len(ws) = 1 THEN ws[1]
    ELSE ws[1] \o " " \o SaysSpaced(Tail(ws))

\* C22: _build_probe maps a compose healthcheck test array by its first
\* element: ["CMD", a1..an] gives an exec probe whose command is [a1..an],
\* ["CMD-SHELL", ...] an exec probe whose command is a shell invocation of
\* the joined remainder, ["NONE"] and an empty test no probe. Without a probe
\* the Deployment has neither livenessProbe nor readinessProbe, otherwise it
\* has both, equal to that probe.
C22_ProbeByTest ==
    ProbeDone =>
        /\ TheComposeContainer.livenessProbe = TheComposeContainer.readinessProbe
        /\ (TheTest = <<>> \/ TheTest = <<"NONE">>)
                => TheComposeContainer.livenessProbe = None
        /\ (TheTest # <<>> /\ TheTest[1] = "CMD")
                => /\ TheComposeContainer.livenessProbe # None
                   /\ Val(TheComposeContainer.livenessProbe).exec
                        = [command |-> SubSeq(TheTest, 2, Len(TheTest))]
        /\ (TheTest # <<>> /\ TheTest[1] = "CMD-SHELL")
                => /\ TheComposeContainer.livenessProbe # None
                   /\ Val(TheComposeContainer.livenessProbe).exec
                        = [command |-> <<"/bin/sh", "-c",
                                         SaysSpaced(SubSeq(TheTest, 2, Len(TheTest)))>>]

\* the Deployment of a service whose healthcheck test is CMD-SHELL with two
\* more elements
C22_Witness ==
    /\ ProbeDone
    /\ TheTest = <<"CMD-SHELL", "pg_isready", "-q">>
    /\ Val(TheComposeContainer.readinessProbe).exec
            = [command |-> <<"/bin/sh", "-c", "pg_isready -q">>]

MemoryConverted == pc = "done" /\ cmd = "convert-memory"

\* the Kubernetes suffix the specification gives for a docker suffix
SaysKubernetesSuffix(d) ==
    IF d \in {"g", "G"} THEN <<"G", "i">>
    ELSE IF d \in {"m", "M"} THEN <<"M", "i">>
    ELSE <<"K", "i">>

\* C24: _convert_memory turns a docker memory string with suffix g, m or k in
\* either letter case into the same number with suffix Gi, Mi or Ki, returns
\* strings already ending in Ki, Mi or Gi unchanged, and applying it to its
\* own result changes nothing.
C24_MemorySuffix ==
    MemoryConverted =>
        /\ \A n \in MemoryNumbers, d \in DockerSuffixes :
              given = Append(n, d) => returned[1] = n \o SaysKubernetesSuffix(d)
        /\ \A n \in MemoryNumbers, k \in KubernetesSuffixes :
              given = n \o k => returned[1] = given
        /\ returned[2] = returned[1]

\* "512M" converted to "512Mi", and that left as it is
C24_Witness ==
    /\ MemoryConverted
    /\ given = <<"5", "1", "2", "M">>
    /\ returned = <<(<<"5", "1", "2", "M", "i">>), (<<"5", "1", "2", "M", "i">>)>>

CpuConverted == pc = "done" /\ cmd = "convert-cpu"

RECURSIVE SaysNumber(_, _)
\* the number a string of decimal digits denotes, read after n
SaysNumber(cs, n) ==
    IF cs = <<>> THEN n
    ELSE SaysNumber(Tail(cs), 10 * n + (CHOOSE d \in 0..9 : ToString(d) = Head(cs)))

\* 1000 times the decimal w.f, for f of one, two or three digits
SaysMillis(w, f) ==
    1000 * SaysNumber(w, 0)
        + SaysNumber(f, 0) * (IF Len(f) = 1 THEN 100 ELSE IF Len(f) = 2 THEN 10 ELSE 1)

RECURSIVE SaysDecimal(_)
SaysDecimal(n) ==
    IF n < 10 THEN <<ToString(n)>> ELSE Append(SaysDecimal(n \div 10), ToString(n % 10))

\* C25: _convert_cpu turns a fractional-core string denoting c cores into the
\* millicpu string for exactly 1000*c ("0.5" gives "500m", "1.0" gives
\* "1000m") for every decimal input with up to three fractional digits, and
\* returns a string already ending in m unchanged.
C25_ExactMillicpu ==
    CpuConverted =>
        /\ \A w \in CpuWholes, f \in CpuFractions :
              given = w \o <<".">> \o f
                => returned = Some(Append(SaysDecimal(SaysMillis(w, f)), "m"))
        /\ (given # <<>> /\ given[Len(given)] = "m") => returned = Some(given)

Decorated == pc = "done" /\ cmd = "decorate"

\* the trigger spec of the record is the one the trigger decorator was given
SaysTriggerSpec(m, t) ==
    /\ m.trigger_type = t.kind
    /\ t.kind = "http" => IsSet(m.http_trigger) /\ Val(m.http_trigger).path = t.path
    /\ t.kind = "queue" =>
          /\ IsSet(m.queue_trigger)
          /\ Val(m.queue_trigger).queue_name = t.queue_name
          /\ Val(m.queue_trigger).batch_size = t.batch_size
    /\ t.kind = "schedule" => IsSet(m.schedule_trigger) /\ Val(m.schedule_trigger).cron = t.cron

\* visibility, resources and scaling of the record are those given to serverless
SaysServerlessOptions(m, s) ==
    /\ m.visibility = s.visibility
    /\ m.resources.memory = s.memory /\ m.resources.cpu = s.cpu
    /\ m.scaling.min_instances = s.min_instances
    /\ m.scaling.max_instances = s.max_instances

\* C26: once serverless and a trigger decorator have been applied to a
\* function, in either order, FunctionRegistry.get(name) returns metadata with
\* the trigger_type and trigger spec of the trigger decorator and the
\* visibility, resources and scaling given to serverless.
C26_RegistryCaptures ==
    Decorated =>
        /\ IsSet(returned)
        /\ SaysTriggerSpec(Val(returned), given.trigger)
        /\ SaysServerlessOptions(Val(returned), given.serverless)

\* with serverless applied last the registered metadata has the trigger
ServerlessOutermostCaptures ==
    (Decorated /\ given.stack[2] = "serverless") =>
        /\ IsSet(returned)
        /\ SaysTriggerSpec(Val(returned), given.trigger)
        /\ SaysServerlessOptions(Val(returned), given.serverless)

\* with the trigger applied last the registered metadata keeps what serverless
\* was given and has the default trigger type and no trigger spec
TriggerOutermostLost ==
    (Decorated /\ given.stack[2] = "trigger") =>
        /\ IsSet(returned)
        /\ SaysServerlessOptions(Val(returned), given.serverless)
        /\ Val(returned).trigger_type = "http"
        /\ Val(returned).http_trigger = None
        /\ Val(returned).queue_trigger = None
        /\ Val(returned).schedule_trigger = None

\* the secret the app's ExternalSecret would create
TheSyncedSecret == TheDeployment.metadata.name \o "-secrets"

\* the envFrom list of the Deployment's container
TheEnvFrom == TheDeployment.spec.template.spec.containers[1].envFrom

\* C27: the Deployment of generate_all_manifests references the secret
\* {name}-secrets through envFrom exactly when the same list has an
\* ExternalSecret whose target secret is {name}-secrets.
C27_SecretRefHasExternalSecret ==
    Generated =>
        ((\E i \in 1..Len(TheEnvFrom) :
              TheEnvFrom[i].ref = "secretRef" /\ TheEnvFrom[i].name = TheSyncedSecret)
         <=> (\E j \in 1..Len(ExternalSecrets) :
                 ExternalSecrets[j].spec.target.name = TheSyncedSecret))

\* an ExternalSecret in the list always has its secret referenced
ExternalSecretIsReferenced ==
    Generated =>
        \A j \in 1..Len(ExternalSecrets) :
            \E i \in 1..Len(TheEnvFrom) :
                /\ TheEnvFrom[i].ref = "secretRef"
                /\ TheEnvFrom[i].name = ExternalSecrets[j].spec.target.name

GatewayDone == pc = "done" /\ tool = "k3sgateway" /\ cmd = "generate"

\* C28: two gateway routes with different paths never get the same generated
\* resource name: their ExternalName Services keda-route-{route_name} have
\* different names and their Ingresses gateway-{route_name} have different
\* names, so no two routes share one backend Service.
C28_RouteNamesDistinct ==
    GatewayDone =>
        \A i, j \in 1..Len(given.routes) :
            given.routes[i].path # given.routes[j].path =>
                /\ manifests[2 * i - 1].kind = "Service"
                /\ manifests[2 * j - 1].kind = "Service"
                /\ manifests[2 * i - 1].metadata.name # manifests[2 * j - 1].metadata.name
                /\ manifests[2 * i].kind = "Ingress"
                /\ manifests[2 * j].kind = "Ingress"
                /\ manifests[2 * i].metadata.name # manifests[2 * j].metadata.name

\* routes whose paths differ in more than "/" against "-" get distinct names
DistinctRouteNamesApart ==
    GatewayDone =>
        \A i, j \in 1..Len(given.routes) :
            (given.routes[i].path # given.routes[j].path
             /\ <<"/">> \in {given.routes[i].path, given.routes[j].path}) =>
                /\ manifests[2 * i - 1].metadata.name # manifests[2 * j - 1].metadata.name
                /\ manifests[2 * i].metadata.name # manifests[2 * j].metadata.name

\* the list has a Service manifest of that name in that namespace
SaysServiceIn(n, ns) ==
    \E i \in 1..Len(manifests) :
        /\ manifests[i].kind = "Service"
        /\ manifests[i].metadata.name = n
        /\ manifests[i].metadata.namespace = ns

\* every backend of the HAProxy Ingresses of the list is a Service of the
\* list, in the namespace of the Ingress
HaproxyBackendsGenerated ==
    \A i \in 1..Len(manifests) :
        manifests[i].kind = "Ingress" =>
            \A r \in 1..Len(manifests[i].spec.rules) :
                \A p \in 1..Len(manifests[i].spec.rules[r].paths) :
                    SaysServiceIn(manifests[i].spec.rules[r].paths[p].backend.service,
                                  manifests[i].metadata.namespace)

\* every service of the Traefik IngressRoutes of the list is a Service of the
\* list, in the namespace of the IngressRoute
TraefikServicesGenerated ==
    \A i \in 1..Len(manifests) :
        manifests[i].kind = "IngressRoute" =>
            \A r \in 1..Len(manifests[i].spec.routes) :
                \A s \in 1..Len(manifests[i].spec.routes[r].services) :
                    SaysServiceIn(manifests[i].spec.routes[r].services[s].name,
                                  manifests[i].metadata.namespace)

\* C29: every Service name an ingress object of k3sapp generate_all_manifests
\* refers to (the backend of the HAProxy Ingress, the service of the Traefik
\* IngressRoute) is the name of a Service manifest of the same list, in the
\* same namespace, for both ingress types.
C29_IngressBackendsGenerated ==
    Generated => HaproxyBackendsGenerated /\ TraefikServicesGenerated

\* the HAProxy half: the backend of the Ingress is the keda-route Service
HaproxyBackendIsGenerated == Generated => HaproxyBackendsGenerated

\* the run generated the Deployment of a service that has volumes
VolumesDone == ComposeDeploymentDone /\ given.service.volumes # <<>>

\* the volumeMounts of the container and the volumes of the pod, empty when
\* the key is absent
TheVolumeMounts ==
    IF IsSet(TheComposeContainer.volumeMounts) THEN Val(TheComposeContainer.volumeMounts)
    ELSE <<>>

ThePodVolumes ==
    IF IsSet(Val(Val(returned).value).spec.template.spec.volumes)
    THEN Val(Val(Val(returned).value).spec.template.spec.volumes)
    ELSE <<>>

\* every mount names a volume of the pod
MountsHaveVolumes ==
    \A i \in 1..Len(TheVolumeMounts) :
        \E j \in 1..Len(ThePodVolumes) : ThePodVolumes[j].name = TheVolumeMounts[i].name

\* the names of the pod's volumes are pairwise distinct and non-empty
VolumeNamesProper ==
    /\ \A i \in 1..Len(ThePodVolumes) : ThePodVolumes[i].name # ""
    /\ \A i, j \in 1..Len(ThePodVolumes) :
          i # j => ThePodVolumes[i].name # ThePodVolumes[j].name

\* C30: in every Deployment of k3scompose generate_deployment, for every
\* combination of bind, named-volume and tmpfs mounts of the service, each
\* name in the container's volumeMounts is the name of an entry of the pod's
\* volumes, and the names of the pod's volumes are pairwise distinct and
\* non-empty.
C30_MountsMatchVolumes ==
    VolumesDone => MountsHaveVolumes /\ VolumeNamesProper

\* for sources whose Kubernetes name is not empty the mounts and the volumes
\* agree
NamedSourcesMatch ==
    (VolumesDone
     /\ \A i \in 1..Len(given.service.volumes) :
           \/ given.service.volumes[i].type = "tmpfs"
           \/ ComposeToK8sName(given.service.volumes[i].source) # <<>>)
        => MountsHaveVolumes /\ VolumeNamesProper

====
